---------------------------- MODULE Spec2Model ----------------------------
(***************************************************************************)
(* A model of the log-filter matching core: the Boolean expression         *)
(* tokenizer and parser, the streaming record assembler, the date filter,  *)
(* the substring evaluator, the per-file worker task, the pipeline         *)
(* orchestrator (single-worker and multi-worker paths) and the process     *)
(* entry point with its exit codes.                                        *)
(*                                                                         *)
(* Text is a sequence of one-character strings.  A log line may start with *)
(* header atoms that stand for the fixed-width parts of a record header:   *)
(* a date atom (10 bytes, "YYYY-MM-DD") and the time atom (19 bytes,       *)
(* " HH:MM:SS.mmm+ZZZZ ").                                                 *)
(***************************************************************************)
EXTENDS Integers, Sequences, FiniteSets, TLC

(***************************************************************************)
(* Characters                                                              *)
(***************************************************************************)

\* str.isspace()
IsSpace(c) == c \in {" ", "\t"}

\* Lower-case / upper-case letter pairs of the model's alphabet.
LetterPairs ==
    { <<"a", "A">>, <<"d", "D">>, <<"e", "E">>, <<"i", "I">>, <<"k", "K">>,
      <<"n", "N">>, <<"o", "O">>, <<"r", "R">>, <<"t", "T">>, <<"x", "X">> }

LowerLetters == { p[1] : p \in LetterPairs }
UpperLetters == { p[2] : p \in LetterPairs }
Digits == { "0", "1", "2" }

\* str.isalnum()
IsAlnum(c) == c \in LowerLetters \cup UpperLetters \cup Digits

\* str.upper() on one character
UpperChar(c) ==
    IF c \in LowerLetters THEN (CHOOSE p \in LetterPairs : p[1] = c)[2] ELSE c

\* str.lower() on one character
LowerChar(c) ==
    IF c \in UpperLetters THEN (CHOOSE p \in LetterPairs : p[2] = c)[1] ELSE c

\* str.upper() / str.lower() on a string
UpperStr(s) == [i \in 1..Len(s) |-> UpperChar(s[i])]
LowerStr(s) == [i \in 1..Len(s) |-> LowerChar(s[i])]

\* s[from:to] with Python's 0-based, end-exclusive positions
Slice(s, from, to) == SubSeq(s, from + 1, to)

(***************************************************************************)
(* Tokenizer (core/tokenizer.py)                                           *)
(***************************************************************************)

TokenType == { "WORD", "AND", "OR", "NOT", "LPAREN", "RPAREN" }

Token(type, value, position) ==
    [type |-> type, value |-> value, position |-> position]

KwAND == <<"A", "N", "D">>
KwOR  == <<"O", "R">>
KwNOT == <<"N", "O", "T">>

\* Position value of an error raised without a position
NoPosition == -1

TokOk(tokens) == [ok |-> TRUE, tokens |-> tokens, position |-> NoPosition]
TokError(position) == [ok |-> FALSE, tokens |-> <<>>, position |-> position]

\* A _match_keyword that does not look at the character after the keyword
MatchKeywordAsPrefix(expression, position, keyword) ==
    LET end_pos == position + Len(keyword)
        length  == Len(expression)
    IN  /\ end_pos <= length
        /\ UpperStr(Slice(expression, position, end_pos)) = UpperStr(keyword)
        /\ (position > 0 =>
                LET prev_char == expression[position] IN
                ~ (IsAlnum(prev_char) \/ prev_char = "_"))

\* Tokenizer._match_keyword; position is 0-based
MatchKeyword(expression, position, keyword) ==
    LET end_pos == position + Len(keyword)
        length  == Len(expression)
    IN  /\ end_pos <= length
        /\ UpperStr(Slice(expression, position, end_pos)) = UpperStr(keyword)
        /\ (position > 0 =>
                LET prev_char == expression[position] IN
                ~ (IsAlnum(prev_char) \/ prev_char = "_"))
        /\ (end_pos < length =>
                LET next_char == expression[end_pos + 1] IN
                ~ (IsAlnum(next_char) \/ next_char = "_"))

\* The loop of Tokenizer._read_quoted_string: first position at or after p
\* holding quote_char, or the length when there is none.
RECURSIVE FindQuote(_, _, _)
FindQuote(expression, p, quote_char) ==
    IF p < Len(expression) /\ expression[p + 1] # quote_char
    THEN FindQuote(expression, p + 1, quote_char)
    ELSE p

\* Tokenizer._read_quoted_string
ReadQuotedString(expression, position, quote_char) ==
    LET start_pos   == position
        value_start == position + 1
        close       == FindQuote(expression, value_start, quote_char)
    IN  IF close >= Len(expression)
        THEN [ok |-> FALSE, position |-> start_pos, next |-> close,
              token |-> Token("WORD", <<>>, start_pos)]
        ELSE [ok |-> TRUE, position |-> NoPosition, next |-> close + 1,
              token |-> Token("WORD", Slice(expression, value_start, close),
                              value_start)]

\* The loop of Tokenizer._read_word: first position at or after p holding
\* whitespace or a parenthesis, or the length.
RECURSIVE WordEnd(_, _)
WordEnd(expression, p) ==
    IF p < Len(expression)
       /\ ~ (IsSpace(expression[p + 1]) \/ expression[p + 1] \in {"(", ")"})
    THEN WordEnd(expression, p + 1)
    ELSE p

\* A _read_word whose value begins one character late
ReadWordLate(expression, position) ==
    LET stop == WordEnd(expression, position)
    IN  [next |-> stop,
         token |-> Token("WORD", Slice(expression, position + 1, stop), position)]

\* Tokenizer._read_word
ReadWord(expression, position) ==
    LET stop == WordEnd(expression, position)
    IN  [next |-> stop,
         token |-> Token("WORD", Slice(expression, position, stop), position)]

\* Tokenizer.tokenize: the scanning loop
RECURSIVE TokenizeLoop(_, _, _)
TokenizeLoop(expression, position, tokens) ==
    IF position >= Len(expression)
    THEN IF tokens = <<>> THEN TokError(NoPosition) ELSE TokOk(tokens)
    ELSE
    LET char == expression[position + 1] IN
    IF IsSpace(char)
    THEN TokenizeLoop(expression, position + 1, tokens)
    ELSE IF char = "("
    THEN TokenizeLoop(expression, position + 1,
                      Append(tokens, Token("LPAREN", <<char>>, position)))
    ELSE IF char = ")"
    THEN TokenizeLoop(expression, position + 1,
                      Append(tokens, Token("RPAREN", <<char>>, position)))
    ELSE IF MatchKeyword(expression, position, KwAND)
    THEN TokenizeLoop(expression, position + 3,
                      Append(tokens, Token("AND", KwAND, position)))
    ELSE IF MatchKeyword(expression, position, KwOR)
    THEN TokenizeLoop(expression, position + 2,
                      Append(tokens, Token("OR", KwOR, position)))
    ELSE IF MatchKeyword(expression, position, KwNOT)
    THEN TokenizeLoop(expression, position + 3,
                      Append(tokens, Token("NOT", KwNOT, position)))
    ELSE IF char \in {"\"", "'"}
    THEN LET q == ReadQuotedString(expression, position, char) IN
         IF q.ok
         THEN TokenizeLoop(expression, q.next, Append(tokens, q.token))
         ELSE TokError(q.position)
    ELSE LET w == ReadWord(expression, position) IN
         TokenizeLoop(expression, w.next, Append(tokens, w.token))

\* str.strip() leaves nothing
IsBlank(s) == \A i \in 1..Len(s) : IsSpace(s[i])

\* tokenize(expression): the module-level convenience function
tokenize(expression) ==
    IF IsBlank(expression)
    THEN TokError(0)
    ELSE TokenizeLoop(expression, 0, <<>>)

(***************************************************************************)
(* Parser (core/parser.py).  AST nodes are the source's tuples:            *)
(* <<"WORD", value>>, <<"NOT", operand>>, <<"AND", left, right>>,          *)
(* <<"OR", left, right>>.                                                  *)
(***************************************************************************)

\* The value a failed parse step carries in place of a node
NoAst == <<>>

ParseOk(node, pos) ==
    [ok |-> TRUE, node |-> node, pos |-> pos, position |-> NoPosition]
ParseErr(position) ==
    [ok |-> FALSE, node |-> NoAst, pos |-> 0, position |-> position]

\* ExpressionParser._match; pos is the 0-based index of the current token
Match(tokens, pos, token_type) ==
    pos < Len(tokens) /\ tokens[pos + 1].type = token_type

\* One part of ExpressionParser._reconstruct_expression
ReconstructPart(token) ==
    IF token.type = "WORD" /\ (\E i \in 1..Len(token.value) : token.value[i] = " ")
    THEN <<"\"">> \o token.value \o <<"\"">>
    ELSE token.value

\* ExpressionParser._reconstruct_expression: " ".join(parts)
RECURSIVE ReconstructExpression(_)
ReconstructExpression(tokens) ==
    IF tokens = <<>> THEN <<>>
    ELSE IF Len(tokens) = 1 THEN ReconstructPart(tokens[1])
    ELSE ReconstructPart(tokens[1]) \o <<" ">> \o ReconstructExpression(Tail(tokens))

RECURSIVE ParseExpression(_, _)
RECURSIVE ParseExpressionLoop(_, _, _)
RECURSIVE ParseTerm(_, _)
RECURSIVE ParseTermLoop(_, _, _)
RECURSIVE ParseUnary(_, _)
RECURSIVE ParseFactor(_, _)

\* ExpressionParser._parse_factor
ParseFactor(tokens, pos) ==
    IF Match(tokens, pos, "LPAREN")
    THEN LET lparen_token == tokens[pos + 1]
             expr == ParseExpression(tokens, pos + 1)
         IN  IF ~ expr.ok THEN expr
             ELSE IF ~ Match(tokens, expr.pos, "RPAREN")
             THEN ParseErr(lparen_token.position)
             ELSE ParseOk(expr.node, expr.pos + 1)
    ELSE IF Match(tokens, pos, "WORD")
    THEN ParseOk(<<"WORD", tokens[pos + 1].value>>, pos + 1)
    ELSE IF pos < Len(tokens)
    THEN ParseErr(tokens[pos + 1].position)
    ELSE ParseErr(Len(ReconstructExpression(tokens)))

\* ExpressionParser._parse_unary
ParseUnary(tokens, pos) ==
    IF Match(tokens, pos, "NOT")
    THEN LET operand == ParseUnary(tokens, pos + 1)
         IN  IF operand.ok
             THEN ParseOk(<<"NOT", operand.node>>, operand.pos)
             ELSE operand
    ELSE ParseFactor(tokens, pos)

\* A loop of _parse_term that takes the whole rest of the term as the right
\* operand: a chain of ANDs associates to the right.
ParseTermLoopRightAssoc(tokens, left, pos) ==
    IF Match(tokens, pos, "AND")
    THEN LET right == ParseTerm(tokens, pos + 1)
         IN  IF right.ok
             THEN ParseOk(<<"AND", left, right.node>>, right.pos)
             ELSE right
    ELSE ParseOk(left, pos)

\* The while loop of ExpressionParser._parse_term
ParseTermLoop(tokens, left, pos) ==
    IF Match(tokens, pos, "AND")
    THEN LET right == ParseUnary(tokens, pos + 1)
         IN  IF right.ok
             THEN ParseTermLoop(tokens, <<"AND", left, right.node>>, right.pos)
             ELSE right
    ELSE ParseOk(left, pos)

\* ExpressionParser._parse_term
ParseTerm(tokens, pos) ==
    LET left == ParseUnary(tokens, pos)
    IN  IF left.ok THEN ParseTermLoop(tokens, left.node, left.pos) ELSE left

\* The while loop of ExpressionParser._parse_expression
ParseExpressionLoop(tokens, left, pos) ==
    IF Match(tokens, pos, "OR")
    THEN LET right == ParseTerm(tokens, pos + 1)
         IN  IF right.ok
             THEN ParseExpressionLoop(tokens, <<"OR", left, right.node>>, right.pos)
             ELSE right
    ELSE ParseOk(left, pos)

\* ExpressionParser._parse_expression
ParseExpression(tokens, pos) ==
    LET left == ParseTerm(tokens, pos)
    IN  IF left.ok THEN ParseExpressionLoop(tokens, left.node, left.pos) ELSE left

\* ExpressionParser.parse
ParserParse(tokens) ==
    IF tokens = <<>> THEN ParseErr(NoPosition)
    ELSE LET ast == ParseExpression(tokens, 0)
         IN  IF ~ ast.ok THEN ast
             ELSE IF ast.pos < Len(tokens)
             THEN ParseErr(tokens[ast.pos + 1].position)
             ELSE ast

\* parse(expression): [ok, ast, error, position]
parse(expression) ==
    LET tokens == tokenize(expression)
    IN  IF ~ tokens.ok
        THEN [ok |-> FALSE, ast |-> NoAst, error |-> "TokenizationError",
              position |-> tokens.position]
        ELSE LET r == ParserParse(tokens.tokens)
             IN  IF r.ok
                 THEN [ok |-> TRUE, ast |-> r.node, error |-> "",
                       position |-> NoPosition]
                 ELSE [ok |-> FALSE, ast |-> NoAst, error |-> "ParseError",
                       position |-> r.position]

(***************************************************************************)
(* Log lines and the record assembler (processing/record_parser.py)        *)
(***************************************************************************)

\* Header atoms.  A date atom stands for ten characters "YYYY-MM-DD"; DateBad
\* has the shape of a date but names no calendar day (as "2025-02-30").
Date1   == "<2025-01-01>"
Date2   == "<2025-01-02>"
DateBad == "<2025-02-30>"
DateAtoms == { Date1, Date2, DateBad }
\* The time atom stands for " 10:00:00.000+0000 " (time, milliseconds, zone
\* and the blanks around them).
TimeAtom == "< 10:00:00.000+0000 >"
\* A filler atom: a run of PadBytes characters "z", which takes a record
\* of one header line and the filler over a cap of one kilobyte.
PadAtom == "<zzz>"
\* A two-byte character
TwoByteChar == "é"

DateBytes == 10
TimeBytes == 19
\* The bytes of the unit of --max-record-size: max_record_size_kb * 1024
BytesPerKb == 1024
PadBytes == BytesPerKb - 24

\* len(atom.encode("utf-8"))
AtomBytes(a) ==
    IF a \in DateAtoms THEN DateBytes
    ELSE IF a = TimeAtom THEN TimeBytes
    ELSE IF a = PadAtom THEN PadBytes
    ELSE IF a = TwoByteChar THEN 2
    ELSE 1

\* len(line.encode("utf-8"))
RECURSIVE Utf8Len(_)
Utf8Len(s) == IF s = <<>> THEN 0 ELSE AtomBytes(Head(s)) + Utf8Len(Tail(s))

\* The level group ([A-Z]+) of a matching line: the upper-case run from i on
RECURSIVE UpperRun(_, _)
UpperRun(line, i) ==
    IF i <= Len(line) /\ line[i] \in UpperLetters
    THEN <<line[i]>> \o UpperRun(line, i + 1)
    ELSE <<>>

\* record_start_pattern.match(line) with DEFAULT_RECORD_START_PATTERN
RecordStartMatch(line) ==
    /\ Len(line) >= 3
    /\ line[1] \in DateAtoms
    /\ line[2] = TimeAtom
    /\ line[3] \in UpperLetters

\* (match.group(1), match.group(2), match.group(3))
FirstLineInfo(line) ==
    [date |-> line[1], time |-> line[2], level |-> UpperRun(line, 3)]
NoLineInfo == [date |-> "", time |-> "", level |-> <<>>]

\* Calendar day and second of the day of the header atoms
DayOf(date_str) == IF date_str = Date1 THEN 1 ELSE 2
SecondOfDay == 10 * 3600

NoTimestamp == [set |-> FALSE, date |-> 0, time |-> 0]

\* The strptime loop of StreamingRecordParser._create_record: "date time"
\* carries no fraction and no zone, so the third format parses it whenever
\* the date is a calendar day; otherwise every format raises ValueError.
ParseTimestamp(first_line_info) ==
    IF first_line_info.date \in { Date1, Date2 }
    THEN [set |-> TRUE, date |-> DayOf(first_line_info.date), time |-> SecondOfDay]
    ELSE NoTimestamp

\* "\n".join(lines)
RECURSIVE JoinLines(_)
JoinLines(lines) ==
    IF lines = <<>> THEN <<>>
    ELSE IF Len(lines) = 1 THEN lines[1]
    ELSE lines[1] \o <<"\n">> \o JoinLines(Tail(lines))

\* StreamingRecordParser._create_record
CreateRecord(lines, size_bytes, first_line_info, start_line, end_line) ==
    [content    |-> JoinLines(lines),
     first_line |-> IF lines = <<>> THEN <<>> ELSE lines[1],
     start_line |-> start_line,
     end_line   |-> end_line,
     timestamp  |-> ParseTimestamp(first_line_info),
     level      |-> first_line_info.level,
     size_bytes |-> size_bytes]

\* max_record_size_bytes = None
NoLimit == 0

\* A size check that never fires
SizeNeverExceeded(current_size_bytes, max_record_size_bytes) == FALSE

\* The size check of parse_lines
SizeExceeded(current_size_bytes, max_record_size_bytes) ==
    max_record_size_bytes # NoLimit /\ current_size_bytes > max_record_size_bytes

\* The locals of StreamingRecordParser.parse_lines before the first line
ParseLinesInit ==
    [current_lines      |-> <<>>,
     current_size_bytes |-> 0,
     first_line_info    |-> NoLineInfo,
     start_line         |-> 1,
     line_number        |-> 0,
     yielded            |-> <<>>,
     raised             |-> FALSE]

\* An iteration of the for loop that gives a record yielded at the next
\* start line that line's number as its end_line.
ParseLinesStepEndAtNextStart(st, line, max_record_size_bytes) ==
    LET line_number == st.line_number + 1 IN
    IF RecordStartMatch(line)
    THEN LET size == Utf8Len(line) IN
         [current_lines      |-> <<line>>,
          current_size_bytes |-> size,
          first_line_info    |-> FirstLineInfo(line),
          start_line         |-> line_number,
          line_number        |-> line_number,
          yielded            |->
              IF st.current_lines # <<>>
              THEN Append(st.yielded,
                          CreateRecord(st.current_lines, st.current_size_bytes,
                                       st.first_line_info, st.start_line,
                                       line_number))
              ELSE st.yielded,
          raised             |-> SizeExceeded(size, max_record_size_bytes)]
    ELSE IF st.current_lines # <<>>
    THEN LET size == st.current_size_bytes + Utf8Len(line) IN
         [st EXCEPT !.current_lines = Append(@, line),
                    !.current_size_bytes = size,
                    !.line_number = line_number,
                    !.raised = SizeExceeded(size, max_record_size_bytes)]
    ELSE [st EXCEPT !.line_number = line_number]

\* An iteration of the for loop that buffers a line met before any record
\* start instead of ignoring it.
ParseLinesStepKeepingOrphans(st, line, max_record_size_bytes) ==
    LET line_number == st.line_number + 1 IN
    IF RecordStartMatch(line)
    THEN LET size == Utf8Len(line) IN
         [current_lines      |-> <<line>>,
          current_size_bytes |-> size,
          first_line_info    |-> FirstLineInfo(line),
          start_line         |-> line_number,
          line_number        |-> line_number,
          yielded            |->
              IF st.current_lines # <<>>
              THEN Append(st.yielded,
                          CreateRecord(st.current_lines, st.current_size_bytes,
                                       st.first_line_info, st.start_line,
                                       line_number - 1))
              ELSE st.yielded,
          raised             |-> SizeExceeded(size, max_record_size_bytes)]
    ELSE IF st.current_lines # <<>>
    THEN LET size == st.current_size_bytes + Utf8Len(line) IN
         [st EXCEPT !.current_lines = Append(@, line),
                    !.current_size_bytes = size,
                    !.line_number = line_number,
                    !.raised = SizeExceeded(size, max_record_size_bytes)]
    ELSE [st EXCEPT !.current_lines = <<line>>,
                    !.current_size_bytes = Utf8Len(line),
                    !.start_line = line_number,
                    !.line_number = line_number]

\* An iteration of the for loop that splits on the first start line only: a
\* start line met while a record is buffered is appended to that record.
ParseLinesStepNotSplitting(st, line, max_record_size_bytes) ==
    LET line_number == st.line_number + 1 IN
    IF RecordStartMatch(line) /\ st.current_lines = <<>>
    THEN LET size == Utf8Len(line) IN
         [current_lines      |-> <<line>>,
          current_size_bytes |-> size,
          first_line_info    |-> FirstLineInfo(line),
          start_line         |-> line_number,
          line_number        |-> line_number,
          yielded            |->
              IF st.current_lines # <<>>
              THEN Append(st.yielded,
                          CreateRecord(st.current_lines, st.current_size_bytes,
                                       st.first_line_info, st.start_line,
                                       line_number - 1))
              ELSE st.yielded,
          raised             |-> SizeExceeded(size, max_record_size_bytes)]
    ELSE IF st.current_lines # <<>>
    THEN LET size == st.current_size_bytes + Utf8Len(line) IN
         [st EXCEPT !.current_lines = Append(@, line),
                    !.current_size_bytes = size,
                    !.line_number = line_number,
                    !.raised = SizeExceeded(size, max_record_size_bytes)]
    ELSE [st EXCEPT !.line_number = line_number]

\* One iteration of the for loop of parse_lines
ParseLinesStep(st, line, max_record_size_bytes) ==
    LET line_number == st.line_number + 1 IN
    IF RecordStartMatch(line)
    THEN LET size == Utf8Len(line) IN
         [current_lines      |-> <<line>>,
          current_size_bytes |-> size,
          first_line_info    |-> FirstLineInfo(line),
          start_line         |-> line_number,
          line_number        |-> line_number,
          yielded            |->
              IF st.current_lines # <<>>
              THEN Append(st.yielded,
                          CreateRecord(st.current_lines, st.current_size_bytes,
                                       st.first_line_info, st.start_line,
                                       line_number - 1))
              ELSE st.yielded,
          raised             |-> SizeExceeded(size, max_record_size_bytes)]
    ELSE IF st.current_lines # <<>>
    THEN LET size == st.current_size_bytes + Utf8Len(line) IN
         [st EXCEPT !.current_lines = Append(@, line),
                    !.current_size_bytes = size,
                    !.line_number = line_number,
                    !.raised = SizeExceeded(size, max_record_size_bytes)]
    ELSE [st EXCEPT !.line_number = line_number]

\* The for loop of parse_lines; it ends at the first RecordSizeExceededError
RECURSIVE ParseLinesLoop(_, _, _)
ParseLinesLoop(st, lines, max_record_size_bytes) ==
    IF lines = <<>> \/ st.raised THEN st
    ELSE ParseLinesLoop(ParseLinesStep(st, Head(lines), max_record_size_bytes),
                        Tail(lines), max_record_size_bytes)

\* parse_lines without its code after the for loop: the record still
\* buffered when the input ends is never yielded.
ParseLinesEndDropping(st) == st.yielded

\* The code of parse_lines after the for loop: the records yielded once the
\* input is exhausted, the record still buffered being the last one.
ParseLinesEnd(st) ==
    IF st.current_lines # <<>>
    THEN Append(st.yielded,
                CreateRecord(st.current_lines, st.current_size_bytes,
                             st.first_line_info, st.start_line,
                             st.line_number))
    ELSE st.yielded

\* StreamingRecordParser.parse_lines: the records it yields, in order, and
\* whether the generator ended by raising RecordSizeExceededError.
ParseLines(lines, max_record_size_bytes) ==
    LET st == ParseLinesLoop(ParseLinesInit, lines, max_record_size_bytes) IN
    IF st.raised
    THEN [records |-> st.yielded, raised |-> TRUE]
    ELSE [records |-> ParseLinesEnd(st), raised |-> FALSE]

(***************************************************************************)
(* Record filters (domain/filters.py).  An unset bound is NoBound.         *)
(***************************************************************************)

NoBound == 0

\* A date filter that lets a record without a timestamp through
DateRangeFilterMatchesUndated(date_from, date_to, record) ==
    IF date_from = NoBound /\ date_to = NoBound THEN TRUE
    ELSE IF ~ record.timestamp.set THEN TRUE
    ELSE IF date_from # NoBound /\ record.timestamp.date < date_from THEN FALSE
    ELSE IF date_to # NoBound /\ record.timestamp.date > date_to THEN FALSE
    ELSE TRUE

\* DateRangeFilter.matches
DateRangeFilterMatches(date_from, date_to, record) ==
    IF date_from = NoBound /\ date_to = NoBound THEN TRUE
    ELSE IF ~ record.timestamp.set THEN FALSE
    ELSE IF date_from # NoBound /\ record.timestamp.date < date_from THEN FALSE
    ELSE IF date_to # NoBound /\ record.timestamp.date > date_to THEN FALSE
    ELSE TRUE

\* A time filter whose upper bound is exclusive
TimeRangeFilterMatchesBelow(time_from, time_to, record) ==
    IF time_from = NoBound /\ time_to = NoBound THEN TRUE
    ELSE IF ~ record.timestamp.set THEN FALSE
    ELSE IF time_from # NoBound /\ record.timestamp.time < time_from THEN FALSE
    ELSE IF time_to # NoBound /\ record.timestamp.time >= time_to THEN FALSE
    ELSE TRUE

\* TimeRangeFilter.matches
TimeRangeFilterMatches(time_from, time_to, record) ==
    IF time_from = NoBound /\ time_to = NoBound THEN TRUE
    ELSE IF ~ record.timestamp.set THEN FALSE
    ELSE IF time_from # NoBound /\ record.timestamp.time < time_from THEN FALSE
    ELSE IF time_to # NoBound /\ record.timestamp.time > time_to THEN FALSE
    ELSE TRUE

\* The record filter a worker task builds from the search configuration and
\* applies: CompositeFilter over the date filter (when a date bound is set)
\* and the time filter (when a time bound is set), AlwaysPassFilter otherwise.
RecordFilterMatches(search, record) ==
    /\ (search.date_from # NoBound \/ search.date_to # NoBound)
            => DateRangeFilterMatches(search.date_from, search.date_to, record)
    /\ (search.time_from # NoBound \/ search.time_to # NoBound)
            => TimeRangeFilterMatches(search.time_from, search.time_to, record)

(***************************************************************************)
(* Evaluator (core/evaluator.py).  A result is the Boolean value, or       *)
(* raised = TRUE when EvaluationError was raised.                          *)
(***************************************************************************)

EvalValue(b) == [value |-> b, raised |-> FALSE]
EvalRaised   == [value |-> FALSE, raised |-> TRUE]

\* pattern in text
Contains(text, pattern) ==
    \E i \in 0..(Len(text) - Len(pattern)) :
        SubSeq(text, i + 1, i + Len(pattern)) = pattern

\* re.compile(pattern) succeeds.  The alphabet holds one regex metacharacter,
\* "[", and no "]": a pattern with a "[" is an unterminated character set.
RegexCompiles(pattern) == \A i \in 1..Len(pattern) : pattern[i] # "["

\* A regex match that takes a pattern that does not compile as no match
MatchRegexSkipping(pattern, text, ignore_case) ==
    IF ~ RegexCompiles(pattern) THEN EvalValue(FALSE)
    ELSE IF ignore_case
    THEN EvalValue(Contains(LowerStr(text), LowerStr(pattern)))
    ELSE EvalValue(Contains(text, pattern))

\* ExpressionEvaluator._match_regex; a pattern without metacharacters is
\* found by regex.search exactly where it occurs as a substring.
MatchRegex(pattern, text, ignore_case) ==
    IF ~ RegexCompiles(pattern) THEN EvalRaised
    ELSE IF ignore_case
    THEN EvalValue(Contains(LowerStr(text), LowerStr(pattern)))
    ELSE EvalValue(Contains(text, pattern))

\* ExpressionEvaluator._match_substring
MatchSubstring(pattern, text, ignore_case) ==
    IF ignore_case
    THEN EvalValue(Contains(LowerStr(text), LowerStr(pattern)))
    ELSE EvalValue(Contains(text, pattern))

\* ExpressionEvaluator._match_pattern
MatchPattern(pattern, text, ignore_case, use_regex) ==
    IF pattern = <<>> THEN EvalValue(FALSE)
    ELSE IF use_regex THEN MatchRegex(pattern, text, ignore_case)
    ELSE MatchSubstring(pattern, text, ignore_case)

\* An evaluation whose NOT returns the value of its operand
RECURSIVE EvaluateNodeLosingNot(_, _, _, _)
EvaluateNodeLosingNot(node, text, ignore_case, use_regex) ==
    IF node = <<>> THEN EvalRaised
    ELSE IF node[1] = "WORD"
    THEN MatchPattern(node[2], text, ignore_case, use_regex)
    ELSE IF node[1] = "NOT"
    THEN LET a == EvaluateNodeLosingNot(node[2], text, ignore_case, use_regex)
         IN  a
    ELSE IF node[1] = "AND"
    THEN LET a == EvaluateNodeLosingNot(node[2], text, ignore_case, use_regex)
         IN  IF a.raised \/ ~ a.value THEN a
             ELSE EvaluateNodeLosingNot(node[3], text, ignore_case, use_regex)
    ELSE IF node[1] = "OR"
    THEN LET a == EvaluateNodeLosingNot(node[2], text, ignore_case, use_regex)
         IN  IF a.raised \/ a.value THEN a
             ELSE EvaluateNodeLosingNot(node[3], text, ignore_case, use_regex)
    ELSE EvalRaised

\* ExpressionEvaluator._evaluate_node
RECURSIVE EvaluateNode(_, _, _, _)
EvaluateNode(node, text, ignore_case, use_regex) ==
    IF node = <<>> THEN EvalRaised
    ELSE IF node[1] = "WORD"
    THEN MatchPattern(node[2], text, ignore_case, use_regex)
    ELSE IF node[1] = "NOT"
    THEN LET a == EvaluateNode(node[2], text, ignore_case, use_regex)
         IN  IF a.raised THEN a ELSE EvalValue(~ a.value)
    ELSE IF node[1] = "AND"
    THEN LET a == EvaluateNode(node[2], text, ignore_case, use_regex)
         IN  IF a.raised \/ ~ a.value THEN a
             ELSE EvaluateNode(node[3], text, ignore_case, use_regex)
    ELSE IF node[1] = "OR"
    THEN LET a == EvaluateNode(node[2], text, ignore_case, use_regex)
         IN  IF a.raised \/ a.value THEN a
             ELSE EvaluateNode(node[3], text, ignore_case, use_regex)
    ELSE EvalRaised

\* evaluate(ast, text, ignore_case, use_regex): the convenience function
evaluate(ast, text, ignore_case, use_regex) ==
    EvaluateNode(ast, text, ignore_case, use_regex)

(***************************************************************************)
(* The worker task (processing/pipeline.py, _process_file_worker)          *)
(***************************************************************************)

\* str(file_meta.path) of file f, one atom
PathAtom(f) == IF f = 1 THEN "<a.log>" ELSE IF f = 2 THEN "<b.log>" ELSE "<c.log>"

\* f"{file_meta.path}: {record.content}"
WithPath(f, content) == <<PathAtom(f), ":", " ">> \o content

\* The locals of the worker task before its for loop: the local statistics
\* collector's counters, matched_records and match_count; raised names the
\* exception that ended the loop ("" while none has).
WorkerLocalsInit ==
    [records_total   |-> 0,
     records_matched |-> 0,
     records_skipped |-> 0,
     matched_records |-> <<>>,
     match_count     |-> 0,
     raised          |-> ""]

\* WorkerStep with a matched record put before the earlier ones
WorkerStepPrepend(loc, f, record, ast, search, include_path) ==
    LET counted == [loc EXCEPT !.records_total = @ + 1] IN
    IF ~ RecordFilterMatches(search, record)
    THEN [counted EXCEPT !.records_skipped = @ + 1]
    ELSE LET e == evaluate(ast, record.content, search.ignore_case, search.use_regex)
         IN  IF e.raised THEN [counted EXCEPT !.raised = "EvaluationError"]
             ELSE IF e.value
             THEN [counted EXCEPT
                      !.records_matched = @ + 1,
                      !.match_count = @ + 1,
                      !.matched_records =
                          <<IF include_path
                            THEN WithPath(f, record.content)
                            ELSE record.content>> \o @]
             ELSE counted

\* One iteration of the for loop of _process_file_worker
WorkerStep(loc, f, record, ast, search, include_path) ==
    LET counted == [loc EXCEPT !.records_total = @ + 1] IN
    IF ~ RecordFilterMatches(search, record)
    THEN [counted EXCEPT !.records_skipped = @ + 1]
    ELSE LET e == evaluate(ast, record.content, search.ignore_case, search.use_regex)
         IN  IF e.raised THEN [counted EXCEPT !.raised = "EvaluationError"]
             ELSE IF e.value
             THEN [counted EXCEPT
                      !.records_matched = @ + 1,
                      !.match_count = @ + 1,
                      !.matched_records =
                          Append(@, IF include_path
                                    THEN WithPath(f, record.content)
                                    ELSE record.content)]
             ELSE counted

\* The for loop of _process_file_worker over the records the assembler yields
RECURSIVE WorkerLoop(_, _, _, _, _, _)
WorkerLoop(loc, f, records, ast, search, include_path) ==
    IF records = <<>> \/ loc.raised # "" THEN loc
    ELSE WorkerLoop(WorkerStep(loc, f, Head(records), ast, search, include_path),
                    f, Tail(records), ast, search, include_path)

\* The locals of the worker task when its try block ends, normally or by an
\* exception.  read is what handler.read_lines() gives: the lines, or
\* FileHandlingError when the file cannot be opened.
WorkerLocals(f, read, ast, config, max_record_size_bytes, include_path) ==
    IF ~ read.ok THEN [WorkerLocalsInit EXCEPT !.raised = "FileHandlingError"]
    ELSE LET parsed == ParseLines(read.lines, max_record_size_bytes)
             loc == WorkerLoop(WorkerLocalsInit, f, parsed.records, ast,
                               config.search, include_path)
         IN  IF loc.raised = "" /\ parsed.raised
             THEN [loc EXCEPT !.raised = "RecordSizeExceededError"]
             ELSE loc

\* stats_dict is None
NoStatsDict == [k \in {} |-> 0]

\* _process_file_worker: (file_meta, matches, stats_dict, matched_records, error)
ProcessFileWorker(f, read, ast, config, max_record_size_bytes, include_path) ==
    LET loc == WorkerLocals(f, read, ast, config, max_record_size_bytes, include_path)
    IN  IF loc.raised # ""
        THEN [file_meta       |-> f,
              matches         |-> 0,
              stats_dict      |-> NoStatsDict,
              matched_records |-> <<>>,
              error           |-> loc.raised]
        ELSE [file_meta       |-> f,
              matches         |-> loc.match_count,
              stats_dict      |->
                  [k \in {"files_processed", "records_total", "records_matched",
                          "records_skipped", "total_bytes_processed",
                          "total_lines_processed"} |->
                      CASE k = "files_processed" -> 1
                        [] k = "records_total"   -> loc.records_total
                        [] k = "records_matched" -> loc.records_matched
                        [] k = "records_skipped" -> loc.records_skipped
                        [] OTHER -> 0],
              matched_records |-> loc.matched_records,
              error           |-> ""]

\* The value of a future that has not completed
NoResult ==
    [file_meta |-> 0, matches |-> 0, stats_dict |-> NoStatsDict,
     matched_records |-> <<>>, error |-> ""]

(***************************************************************************)
(* Statistics (statistics/collector.py) and their merge at the             *)
(* orchestrator (processing/pipeline.py, _process_files)                   *)
(***************************************************************************)

\* The skip reasons the scanner of the model reports
ScanSkipReasons == { "size-limit" }
SkipReasons == ScanSkipReasons \cup { "unknown", "unexpected-error" }

\* ProcessingStats()
NewStats ==
    [files_scanned         |-> 0,
     files_processed       |-> 0,
     files_skipped         |-> 0,
     skip_reasons          |-> [r \in SkipReasons |-> 0],
     records_total         |-> 0,
     records_matched       |-> 0,
     records_skipped       |-> 0,
     total_bytes_processed |-> 0,
     total_lines_processed |-> 0]

\* StatisticsCollector.increment_files_scanned
IncrementFilesScanned(st) == [st EXCEPT !.files_scanned = @ + 1]

\* StatisticsCollector.increment_files_processed
IncrementFilesProcessed(st) == [st EXCEPT !.files_processed = @ + 1]

\* StatisticsCollector.increment_files_skipped
IncrementFilesSkipped(st, reason) ==
    [st EXCEPT !.files_skipped = @ + 1, !.skip_reasons[reason] = @ + 1]

\* The first merge block of _process_files (the only one of the
\* multi-worker path): every key it reads is a key of stats_dict.
MergeStatsDict(st, stats_dict) ==
    LET added ==
            [st EXCEPT
                !.records_total         = @ + stats_dict["records_total"],
                !.records_matched       = @ + stats_dict["records_matched"],
                !.records_skipped       = @ + stats_dict["records_skipped"],
                !.total_bytes_processed = @ + stats_dict["total_bytes_processed"],
                !.total_lines_processed = @ + stats_dict["total_lines_processed"]]
    IN  IF stats_dict["files_processed"] > 0
        THEN IncrementFilesProcessed(added)
        ELSE added

\* The statements that follow the first merge block in the single-worker
\* path.  They run in order; reading a key stats_dict does not have raises
\* KeyError, which ends the block with the earlier statements done.
MergeStatsDictAgain(st, stats_dict) ==
    LET s1 == [st EXCEPT !.records_skipped = @ + stats_dict["records_skipped"]] IN
    IF "bytes_processed" \notin DOMAIN stats_dict THEN s1
    ELSE
    LET s2 == [s1 EXCEPT !.total_bytes_processed = @ + stats_dict["bytes_processed"]] IN
    IF "lines_processed" \notin DOMAIN stats_dict THEN s2
    ELSE
    LET s3 == [s2 EXCEPT !.total_lines_processed = @ + stats_dict["lines_processed"]] IN
    IF stats_dict["files_processed"] > 0 THEN IncrementFilesProcessed(s3) ELSE s3

\* AggregateMulti with the records of a result merged into the list around
\* the records already there, not appended as one block
AggregateMultiInterleaving(agg, result) ==
    IF result.error # "" THEN agg
    ELSE [stats |->
              IF DOMAIN result.stats_dict # {}
              THEN MergeStatsDict(agg.stats, result.stats_dict)
              ELSE agg.stats,
          all_matched_records |->
              IF result.matched_records # <<>>
              THEN <<Head(result.matched_records)>>
                       \o agg.all_matched_records
                       \o Tail(result.matched_records)
              ELSE agg.all_matched_records]

\* The orchestrator's handling of one result in the multi-worker path:
\* agg is [stats, all_matched_records].
AggregateMulti(agg, result) ==
    IF result.error # "" THEN agg
    ELSE [stats |->
              IF DOMAIN result.stats_dict # {}
              THEN MergeStatsDict(agg.stats, result.stats_dict)
              ELSE agg.stats,
          all_matched_records |->
              IF result.matched_records # <<>>
              THEN agg.all_matched_records \o result.matched_records
              ELSE agg.all_matched_records]

\* The orchestrator's handling of one result in the single-worker path
AggregateSingle(agg, result) ==
    IF result.error # "" THEN agg
    ELSE [stats |->
              IF DOMAIN result.stats_dict # {}
              THEN MergeStatsDictAgain(
                       MergeStatsDict(agg.stats, result.stats_dict),
                       result.stats_dict)
              ELSE agg.stats,
          all_matched_records |->
              IF result.matched_records # <<>>
              THEN agg.all_matched_records \o result.matched_records
              ELSE agg.all_matched_records]

\* record.endswith("\n")
EndsWithNewline(record) == record # <<>> /\ record[Len(record)] = "\n"

\* The f.write calls of the final write loop, in order: each record, and a
\* newline after a record that does not end with one.
RECURSIVE WriteCalls(_)
WriteCalls(records) ==
    IF records = <<>> THEN <<>>
    ELSE (IF EndsWithNewline(Head(records))
          THEN <<Head(records)>>
          ELSE <<Head(records), <<"\n">>>>) \o WriteCalls(Tail(records))

(***************************************************************************)
(* Configuration (cli.py, config/models.py)                                *)
(***************************************************************************)

\* MAX_WORKERS_LINUX
MaxWorkersLinux == 32

\* worker_count = None
NoWorkerCount == 0

NoConfig ==
    [search     |-> [expression |-> <<>>, ignore_case |-> FALSE, use_regex |-> FALSE,
                     date_from |-> NoBound, date_to |-> NoBound,
                     time_from |-> NoBound, time_to |-> NoBound],
     files      |-> [path_exists |-> FALSE, max_record_size_kb |-> NoLimit],
     output     |-> [include_file_path |-> TRUE, dry_run |-> FALSE],
     processing |-> [worker_count |-> NoWorkerCount]]

\* build_config_from_args: the ApplicationConfig of the parsed arguments.
\* "x or None" turns a 0 into None for --max-record-size and --workers.
ConfigOfArgs(args) ==
    [search     |-> [expression |-> args.expression,
                     ignore_case |-> args.ignore_case,
                     use_regex |-> args.regex,
                     date_from |-> args.date_from, date_to |-> args.date_to,
                     time_from |-> NoBound, time_to |-> NoBound],
     files      |-> [path_exists |-> args.path_exists,
                     max_record_size_kb |-> args.max_record_size],
     output     |-> [include_file_path |-> ~ args.no_path,
                     dry_run |-> args.dry_run],
     processing |-> [worker_count |-> args.workers]]

\* The __post_init__ validations of SearchConfig, FileConfig and
\* ProcessingConfig: TRUE when one of them raises ValueError.
ConfigValueError(config) ==
    \/ IsBlank(config.search.expression)
    \/ /\ config.search.date_from # NoBound
       /\ config.search.date_to # NoBound
       /\ config.search.date_from > config.search.date_to
    \/ ~ config.files.path_exists
    \/ config.files.max_record_size_kb < 0
    \/ config.processing.worker_count < 0
    \/ config.processing.worker_count > MaxWorkersLinux

\* The ValueError of ProcessingConfig.__post_init__ for worker_count: whether
\* it is raised, and whether its message names the platform maximum.
WorkerCountError(worker_count) ==
    IF worker_count = NoWorkerCount
    THEN [raised |-> FALSE, names_cap |-> FALSE]
    ELSE IF worker_count <= 0
    THEN [raised |-> TRUE, names_cap |-> FALSE]
    ELSE IF worker_count > MaxWorkersLinux
    THEN [raised |-> TRUE, names_cap |-> TRUE]
    ELSE [raised |-> FALSE, names_cap |-> FALSE]

\* parse_args: what main's call of it gives.  outcome is "config",
\* "ConfigurationError" or "SystemExit" (argparse rejecting the arguments,
\* with code 2).
ParseArgs(args) ==
    IF ~ args.usage_ok
    THEN [outcome |-> "SystemExit", code |-> 2, config |-> NoConfig]
    ELSE IF args.expression = <<>> \/ ConfigValueError(ConfigOfArgs(args))
    THEN [outcome |-> "ConfigurationError", code |-> 0, config |-> NoConfig]
    ELSE [outcome |-> "config", code |-> 0, config |-> ConfigOfArgs(args)]

(***************************************************************************)
(* Inputs of the pipeline model                                            *)
(***************************************************************************)

\* The number of files under the root path
NumFiles == 2
Files == 1..NumFiles

LineErrK == <<Date1, TimeAtom, "E", " ", "k">>
LineInfo == <<Date2, TimeAtom, "I", " ", "x">>
LineBadK == <<DateBad, TimeAtom, "E", " ", "k">>
LineK2   == <<Date1, TimeAtom, "E", " ", "K", "2">>
LineCont == <<" ", "k", "2">>
LinePad  == <<PadAtom>>

\* What a file may hold when a worker reads it
FileContents ==
    { <<>>,
      <<LineErrK, LineInfo>>,
      <<LineCont, LineErrK, LineCont, LineK2>>,
      <<LineErrK, LineInfo, LinePad, LineErrK>>,
      <<LineBadK, LineK2>> }

\* What handler.read_lines() may give: the lines, or FileHandlingError
FileReads ==
    { [ok |-> TRUE, lines |-> c] : c \in FileContents }
        \cup { [ok |-> FALSE, lines |-> <<>>] }
NoRead == [ok |-> FALSE, lines |-> <<>>]

ExprK            == <<"k">>
ExprAndNot       == <<"e", " ", "A", "N", "D", " ", "N", "O", "T", " ", "x">>
ExprOrBracket    == <<"k", " ", "o", "r", " ", "[">>
ExprUnbalanced   == <<"(", "k">>
ExprUnterminated == <<"'", "k">>

\* Search settings of the runs: expression, ignore_case, regex
SearchArgs ==
    { <<ExprK, FALSE, FALSE>>,
      <<ExprAndNot, TRUE, FALSE>>,
      <<ExprOrBracket, FALSE, TRUE>>,
      <<ExprUnbalanced, FALSE, FALSE>>,
      <<ExprUnterminated, FALSE, FALSE>> }

\* A command line.  workers_flag tells that --workers is on it; without the
\* flag args.workers is None.
BaseArgs ==
    [usage_ok |-> TRUE, expression |-> ExprK, ignore_case |-> FALSE,
     regex |-> FALSE, date_from |-> NoBound, date_to |-> NoBound,
     path_exists |-> TRUE, max_record_size |-> NoLimit,
     workers_flag |-> FALSE, workers |-> NoWorkerCount,
     no_path |-> FALSE, dry_run |-> FALSE]

RejectedArgs ==
    { [BaseArgs EXCEPT !.usage_ok = FALSE],
      [BaseArgs EXCEPT !.expression = <<>>],
      [BaseArgs EXCEPT !.expression = <<" ">>],
      [BaseArgs EXCEPT !.path_exists = FALSE],
      [BaseArgs EXCEPT !.date_from = 2, !.date_to = 1],
      [BaseArgs EXCEPT !.max_record_size = -1],
      [BaseArgs EXCEPT !.workers_flag = TRUE, !.workers = -1],
      [BaseArgs EXCEPT !.workers_flag = TRUE, !.workers = MaxWorkersLinux + 1] }

AcceptedArgs ==
    { [BaseArgs EXCEPT !.expression = s[1], !.ignore_case = s[2], !.regex = s[3],
                       !.date_from = d, !.date_to = d,
                       !.max_record_size = m,
                       !.workers_flag = (w # NoWorkerCount), !.workers = w,
                       !.no_path = np, !.dry_run = dr] :
        s \in SearchArgs, d \in {NoBound, 1}, m \in {NoLimit, 1},
        w \in {NoWorkerCount, 1, 2}, np \in BOOLEAN, dr \in BOOLEAN }
    \cup { [BaseArgs EXCEPT !.workers_flag = TRUE, !.workers = 0] }

ArgsSet == AcceptedArgs \cup RejectedArgs

\* os.cpu_count() of the machines of the model
CpuCounts == { 1, 2 }

(***************************************************************************)
(* The run: main.py (main) and processing/pipeline.py (ProcessingPipeline) *)
(***************************************************************************)

VARIABLES
    pc,                   \* where main and the orchestrator stand
    args,                 \* the command line
    config,               \* the ApplicationConfig parse_args built
    ast,                  \* the parsed search expression
    scanned,              \* how many files the scanner has yielded
    files_to_process,     \* run's list of the files that are not skipped
    worker_count,         \* _process_files' worker_count
    processed_count,      \* _process_files' processed_count
    tasks,                \* the state of each file's worker task
    lines_read,           \* what each file's handler gave its worker task
    results,              \* each worker task's returned tuple
    all_matched_records,  \* _process_files' all_matched_records
    stats,                \* pipeline.stats.stats, the global statistics
    output_file,          \* the output file: whether it exists, and the writes
    interrupted,          \* KeyboardInterrupt was raised in the orchestrator
    exit_code,            \* what main returned
    asm_input,            \* the lines given to a parse_lines generator
    asm_cap,              \* that parser's max_record_size_bytes
    asm,                  \* the generator's locals and what it has yielded
    asm_done,             \* the generator has returned or raised
    flt_search,           \* the date and time bounds of a search configuration
    flt_record,           \* a record given to the filters built from them
    flt_verdict,          \* what each filter's matches() returned
    q_expression,         \* a search expression
    q_tokens,             \* what tokenize gave for it
    q_retokens,           \* what tokenize gave for the rebuilt expression
    q_ast,                \* what the parser gave for the tokens
    q_eval,               \* an evaluation of the AST: text, options, result
    fw,                   \* a call of FileWorker.process_file: arguments, locals
    fw_stats,             \* the counters of the worker's stats_collector
    fw_written,           \* the records passed to writer.write_result
    sc_stats,             \* StatisticsCollector.stats
    sc_lock,              \* StatisticsCollector._lock: its holder, 0 when free
    sc_threads,           \* each thread's position in its collector call
    sc_returned,          \* how many calls of each method have returned
    sc_snapshot,          \* what the last get_snapshot returned
    bw_config,            \* BufferedLogWriter's buffer_size and include_path
    bw_buffer,            \* BufferedLogWriter._buffer
    bw_file,              \* the items written to the output file
    bw_handle,            \* BufferedLogWriter._file_handle: none, open, closed
    bw_lock,              \* BufferedLogWriter._lock: its holder, 0 when free
    bw_threads            \* each thread's position in its write calls

pipelineVars == <<pc, args, config, ast, scanned, files_to_process,
                  worker_count, processed_count, tasks, lines_read, results,
                  all_matched_records, stats, output_file, interrupted,
                  exit_code>>

asmVars == <<asm_input, asm_cap, asm, asm_done>>

fltVars == <<flt_search, flt_record, flt_verdict>>

queryVars == <<q_expression, q_tokens, q_retokens, q_ast, q_eval>>

\* FileWorker.process_file: one call, the collector and the writer it uses
fwVars == <<fw, fw_stats, fw_written>>

\* StatisticsCollector called by several threads
scVars == <<sc_stats, sc_lock, sc_threads, sc_returned, sc_snapshot>>

\* BufferedLogWriter called by several threads
bwVars == <<bw_config, bw_buffer, bw_file, bw_handle, bw_lock, bw_threads>>

unitVars == <<fwVars, scVars, bwVars>>

vars == <<pipelineVars, asmVars, fltVars, queryVars, unitVars>>

\* main has not returned
NoExitCode == -1

NoOutputFile == [exists |-> FALSE, writes |-> <<>>]

\* The pipeline before main is entered
PipelineInit ==
    /\ pc = "main"
    /\ config = NoConfig
    /\ ast = NoAst
    /\ scanned = 0
    /\ files_to_process = <<>>
    /\ worker_count = 0
    /\ processed_count = 0
    /\ tasks = [f \in Files |-> "new"]
    /\ lines_read = [f \in Files |-> NoRead]
    /\ results = [f \in Files |-> NoResult]
    /\ all_matched_records = <<>>
    /\ stats = NewStats
    /\ output_file = NoOutputFile
    /\ interrupted = FALSE
    /\ exit_code = NoExitCode

\* A parse_lines generator that was given no input and no cap
AsmIdle ==
    /\ asm_input = <<>>
    /\ asm_cap = NoLimit
    /\ asm = ParseLinesInit
    /\ asm_done = FALSE

\* The verdict of a filter that has not been asked
NotAsked == [asked |-> FALSE, matches |-> FALSE]

\* The verdict of a filter whose matches() returned b
Verdict(b) == [asked |-> TRUE, matches |-> b]

\* No filter has been built
FltIdle ==
    /\ flt_search = [date_from |-> NoBound, date_to |-> NoBound,
                     time_from |-> NoBound, time_to |-> NoBound]
    /\ flt_record = CreateRecord(<<>>, 0, NoLineInfo, 1, 1)
    /\ flt_verdict = [date |-> NotAsked, time |-> NotAsked, record |-> NotAsked]

\* What stands for a result that has not been computed
NotYet == [done |-> FALSE]

\* No expression has been given to the tokenizer
QueryIdle ==
    /\ q_expression = <<>>
    /\ q_tokens = NotYet
    /\ q_retokens = NotYet
    /\ q_ast = NotYet
    /\ q_eval = NotYet

\* No call of process_file is made
FwIdle ==
    /\ fw = [pc |-> "idle"]
    /\ fw_stats = NewStats
    /\ fw_written = <<>>

\* No thread uses a collector
ScIdle ==
    /\ sc_stats = NewStats
    /\ sc_lock = 0
    /\ sc_threads = <<>>
    /\ sc_returned = <<>>
    /\ sc_snapshot = NotYet

\* No writer is made
BwIdle ==
    /\ bw_config = [buffer_size |-> 1, include_path |-> FALSE]
    /\ bw_buffer = <<>>
    /\ bw_file = <<>>
    /\ bw_handle = "none"
    /\ bw_lock = 0
    /\ bw_threads = <<>>

Init ==
    /\ args \in ArgsSet
    /\ PipelineInit
    /\ AsmIdle
    /\ FltIdle
    /\ QueryIdle
    /\ FwIdle
    /\ ScIdle
    /\ BwIdle

\* main returns code
Exit(code) == pc' = "exit" /\ exit_code' = code

\* main: config = parse_args(), and the two except clauses around it
MainParseArgs ==
    /\ pc = "main"
    /\ LET r == ParseArgs(args) IN
       \/ /\ r.outcome = "ConfigurationError"
          /\ Exit(2)
          /\ UNCHANGED config
       \/ /\ r.outcome = "SystemExit"
          /\ Exit(r.code)
          /\ UNCHANGED config
       \/ /\ r.outcome = "config"
          /\ config' = r.config
          /\ pc' = "construct"
          /\ UNCHANGED exit_code
    /\ UNCHANGED <<args, ast, scanned, files_to_process, worker_count,
                   processed_count, tasks, lines_read, results,
                   all_matched_records, stats, output_file, interrupted>>
    /\ UNCHANGED <<asmVars, fltVars, queryVars, unitVars>>

\* ProcessingPipeline._validate_config raises ConfigurationError
ValidateConfigFails(cfg) ==
    cfg.search.expression = <<>> \/ ~ cfg.files.path_exists

\* main: pipeline = ProcessingPipeline(config); a ConfigurationError of the
\* constructor reaches main's "except Exception", which returns 1.
PipelineConstruct ==
    /\ pc = "construct"
    /\ IF ValidateConfigFails(config)
       THEN Exit(1) /\ UNCHANGED stats
       ELSE pc' = "run" /\ stats' = NewStats /\ UNCHANGED exit_code
    /\ UNCHANGED <<args, config, ast, scanned, files_to_process, worker_count,
                   processed_count, tasks, lines_read, results,
                   all_matched_records, output_file, interrupted>>
    /\ UNCHANGED <<asmVars, fltVars, queryVars, unitVars>>

\* RunParseExpression with the failure of the parse logged, not raised
RunParseExpressionSwallowed ==
    /\ pc = "run"
    /\ LET r == parse(config.search.expression) IN
       /\ ast' = r.ast
       /\ pc' = "scan"
       /\ UNCHANGED exit_code
    /\ UNCHANGED <<args, config, scanned, files_to_process, worker_count,
                   processed_count, tasks, lines_read, results,
                   all_matched_records, stats, output_file, interrupted>>
    /\ UNCHANGED <<asmVars, fltVars, queryVars, unitVars>>

\* run: ast = self._parse_expression().  A failed parse is re-raised as
\* ConfigurationError, leaves run through its finally clause and reaches
\* main's "except Exception", which returns 1.
RunParseExpression ==
    /\ pc = "run"
    /\ LET r == parse(config.search.expression) IN
       IF r.ok
       THEN ast' = r.ast /\ pc' = "scan" /\ UNCHANGED exit_code
       ELSE Exit(1) /\ UNCHANGED ast
    /\ UNCHANGED <<args, config, scanned, files_to_process, worker_count,
                   processed_count, tasks, lines_read, results,
                   all_matched_records, stats, output_file, interrupted>>
    /\ UNCHANGED <<asmVars, fltVars, queryVars, unitVars>>

\* run: one iteration of "for file_meta in file_scanner.scan()"; skip_reason
\* is "" for a file the scanner does not mark to skip.
RunScan ==
    /\ pc = "scan"
    /\ scanned < NumFiles
    /\ \E skip_reason \in ScanSkipReasons \cup {""} :
        LET f == scanned + 1 IN
        IF skip_reason # ""
        THEN /\ stats' = IncrementFilesSkipped(IncrementFilesScanned(stats), skip_reason)
             /\ UNCHANGED files_to_process
        ELSE /\ stats' = IncrementFilesScanned(stats)
             /\ files_to_process' = Append(files_to_process, f)
    /\ scanned' = scanned + 1
    /\ UNCHANGED <<pc, args, config, ast, worker_count, processed_count, tasks,
                   lines_read, results, all_matched_records, output_file,
                   interrupted, exit_code>>
    /\ UNCHANGED <<asmVars, fltVars, queryVars, unitVars>>

\* run: the dry-run branch; _handle_dry_run only logs, run returns and main
\* returns 0.
RunDryRun ==
    /\ pc = "scan"
    /\ scanned = NumFiles
    /\ config.output.dry_run
    /\ Exit(0)
    /\ UNCHANGED <<args, config, ast, scanned, files_to_process, worker_count,
                   processed_count, tasks, lines_read, results,
                   all_matched_records, stats, output_file, interrupted>>
    /\ UNCHANGED <<asmVars, fltVars, queryVars, unitVars>>

\* run: "if files_to_process:" is false; run returns and main returns 0.
RunNoFiles ==
    /\ pc = "scan"
    /\ scanned = NumFiles
    /\ ~ config.output.dry_run
    /\ files_to_process = <<>>
    /\ Exit(0)
    /\ UNCHANGED <<args, config, ast, scanned, files_to_process, worker_count,
                   processed_count, tasks, lines_read, results,
                   all_matched_records, stats, output_file, interrupted>>
    /\ UNCHANGED <<asmVars, fltVars, queryVars, unitVars>>

\* min(a, b)
Min(a, b) == IF a <= b THEN a ELSE b

\* _process_files: the worker count, from the configuration or detected
DetermineWorkerCount(cfg, cpu_count) ==
    IF cfg.processing.worker_count = NoWorkerCount
    THEN Min(cpu_count, MaxWorkersLinux)
    ELSE cfg.processing.worker_count

\* _process_files: use_multiprocessing
UseMultiprocessing(count) == count > 1

\* ProcessFilesBegin reached in a dry run too: the dry-run branch of run
\* without its return
ProcessFilesBeginInDryRun ==
    /\ pc = "scan"
    /\ scanned = NumFiles
    /\ files_to_process # <<>>
    /\ \E cpu_count \in CpuCounts :
        /\ worker_count' = DetermineWorkerCount(config, cpu_count)
        /\ pc' = IF UseMultiprocessing(worker_count') THEN "submit" ELSE "single"
    /\ UNCHANGED <<args, config, ast, scanned, files_to_process, processed_count,
                   tasks, lines_read, results, all_matched_records, stats,
                   output_file, interrupted, exit_code>>
    /\ UNCHANGED <<asmVars, fltVars, queryVars, unitVars>>

\* _process_files, up to the branch on use_multiprocessing
ProcessFilesBegin ==
    /\ pc = "scan"
    /\ scanned = NumFiles
    /\ ~ config.output.dry_run
    /\ files_to_process # <<>>
    /\ \E cpu_count \in CpuCounts :
        /\ worker_count' = DetermineWorkerCount(config, cpu_count)
        /\ pc' = IF UseMultiprocessing(worker_count') THEN "submit" ELSE "single"
    /\ UNCHANGED <<args, config, ast, scanned, files_to_process, processed_count,
                   tasks, lines_read, results, all_matched_records, stats,
                   output_file, interrupted, exit_code>>
    /\ UNCHANGED <<asmVars, fltVars, queryVars, unitVars>>

\* _process_files: max_record_size_bytes
MaxRecordSizeBytes(cfg) ==
    IF cfg.files.max_record_size_kb # NoLimit
    THEN cfg.files.max_record_size_kb * BytesPerKb
    ELSE NoLimit

\* The tuple the worker task of file f returns when its handler gives read
TaskResult(f, read) ==
    ProcessFileWorker(f, read, ast, config, MaxRecordSizeBytes(config),
                      config.output.include_file_path)

\* The files of files_to_process, as a set
ToProcess == { files_to_process[i] : i \in 1..Len(files_to_process) }

\* Submit with the submissions going on after the interrupt
SubmitAfterInterrupt ==
    /\ pc \in { "submit", "shutdown" }
    /\ \E g \in ToProcess : tasks[g] = "new"
    /\ LET n == Cardinality({ g \in ToProcess : tasks[g] # "new" })
           f == files_to_process[n + 1]
       IN  /\ tasks' = [tasks EXCEPT ![f] = "queued"]
           /\ pc' = IF pc = "shutdown" THEN "shutdown"
                    ELSE IF n + 1 = Len(files_to_process) THEN "collect"
                    ELSE "submit"
    /\ UNCHANGED <<args, config, ast, scanned, files_to_process, worker_count,
                   processed_count, lines_read, results, all_matched_records,
                   stats, output_file, interrupted, exit_code>>
    /\ UNCHANGED <<asmVars, fltVars, queryVars, unitVars>>

\* The multi-worker path: one executor.submit of the dict comprehension, in
\* the order of worker_args; after the last one the orchestrator waits in
\* as_completed.
Submit ==
    /\ pc = "submit"
    /\ LET n == Cardinality({ g \in ToProcess : tasks[g] # "new" })
           f == files_to_process[n + 1]
       IN  /\ tasks' = [tasks EXCEPT ![f] = "queued"]
           /\ pc' = IF n + 1 = Len(files_to_process) THEN "collect" ELSE "submit"
    /\ UNCHANGED <<args, config, ast, scanned, files_to_process, worker_count,
                   processed_count, lines_read, results, all_matched_records,
                   stats, output_file, interrupted, exit_code>>
    /\ UNCHANGED <<asmVars, fltVars, queryVars, unitVars>>

\* The executor's pool: the work items are taken in the order of submission,
\* by at most max_workers processes at a time.
PoolCanStart(f) ==
    /\ tasks[f] = "queued"
    /\ \A g \in ToProcess : tasks[g] = "queued" => f <= g
    /\ Cardinality({ g \in ToProcess : tasks[g] = "running" }) < worker_count

\* The executor is alive: from its creation to the end of the with block,
\* whose exit is shutdown(wait=True).
PoolAlive == pc \in { "submit", "collect", "shutdown" }

\* A pool process takes the worker task of file f
WorkerStart(f) ==
    /\ PoolAlive
    /\ PoolCanStart(f)
    /\ tasks' = [tasks EXCEPT ![f] = "running"]
    /\ UNCHANGED <<pc, args, config, ast, scanned, files_to_process, worker_count,
                   processed_count, lines_read, results, all_matched_records,
                   stats, output_file, interrupted, exit_code>>
    /\ UNCHANGED <<asmVars, fltVars, queryVars, unitVars>>

\* WorkerFinish with the worker task counting into the orchestrator's
\* statistics instead of a collector of its own
WorkerFinishSharingStats(f) ==
    /\ PoolAlive
    /\ tasks[f] = "running"
    /\ \E read \in FileReads :
        LET result == TaskResult(f, read) IN
        /\ lines_read' = [lines_read EXCEPT ![f] = read]
        /\ results' = [results EXCEPT ![f] = result]
        /\ stats' = [stats EXCEPT !.records_matched = @ + result.matches]
    /\ tasks' = [tasks EXCEPT ![f] = "done"]
    /\ UNCHANGED <<pc, args, config, ast, scanned, files_to_process, worker_count,
                   processed_count, all_matched_records, output_file,
                   interrupted, exit_code>>
    /\ UNCHANGED <<asmVars, fltVars, queryVars, unitVars>>

\* A pool process runs _process_file_worker on file f to its return
WorkerFinish(f) ==
    /\ PoolAlive
    /\ tasks[f] = "running"
    /\ \E read \in FileReads :
        /\ lines_read' = [lines_read EXCEPT ![f] = read]
        /\ results' = [results EXCEPT ![f] = TaskResult(f, read)]
    /\ tasks' = [tasks EXCEPT ![f] = "done"]
    /\ UNCHANGED <<pc, args, config, ast, scanned, files_to_process, worker_count,
                   processed_count, all_matched_records, stats, output_file,
                   interrupted, exit_code>>
    /\ UNCHANGED <<asmVars, fltVars, queryVars, unitVars>>

\* Collect with the failure of a worker task raised by future.result(): it
\* leaves run and main returns 1
CollectRaising(f) ==
    /\ pc = "collect"
    /\ tasks[f] = "done"
    /\ IF results[f].error # ""
       THEN /\ Exit(1)
            /\ UNCHANGED <<stats, all_matched_records>>
       ELSE LET agg == AggregateMulti([stats |-> stats,
                                       all_matched_records |-> all_matched_records],
                                      results[f])
            IN  /\ stats' = agg.stats
                /\ all_matched_records' = agg.all_matched_records
                /\ UNCHANGED <<pc, exit_code>>
    /\ processed_count' = processed_count + 1
    /\ tasks' = [tasks EXCEPT ![f] = "collected"]
    /\ UNCHANGED <<args, config, ast, scanned, files_to_process, worker_count,
                   lines_read, results, output_file, interrupted>>
    /\ UNCHANGED <<asmVars, fltVars, queryVars, unitVars>>

\* The multi-worker path: one iteration of "for future in as_completed"
Collect(f) ==
    /\ pc = "collect"
    /\ tasks[f] = "done"
    /\ LET agg == AggregateMulti([stats |-> stats,
                                  all_matched_records |-> all_matched_records],
                                 results[f])
       IN  /\ stats' = agg.stats
           /\ all_matched_records' = agg.all_matched_records
    /\ processed_count' = processed_count + 1
    /\ tasks' = [tasks EXCEPT ![f] = "collected"]
    /\ UNCHANGED <<pc, args, config, ast, scanned, files_to_process, worker_count,
                   lines_read, results, output_file, interrupted, exit_code>>
    /\ UNCHANGED <<asmVars, fltVars, queryVars, unitVars>>

\* AllCollected with one collected result taken for all of them
AllCollectedEarly == \E f \in ToProcess : tasks[f] = "collected"

\* as_completed has yielded every future
AllCollected == \A f \in ToProcess : tasks[f] = "collected"

\* The multi-worker path: as_completed is exhausted and the with block ends
CollectDone ==
    /\ pc = "collect"
    /\ AllCollected
    /\ pc' = "write"
    /\ UNCHANGED <<args, config, ast, scanned, files_to_process, worker_count,
                   processed_count, tasks, lines_read, results,
                   all_matched_records, stats, output_file, interrupted, exit_code>>
    /\ UNCHANGED <<asmVars, fltVars, queryVars, unitVars>>

\* The single-worker path: the loop takes the next file and calls
\* _process_file_worker in the orchestrator itself
SingleStart ==
    /\ pc = "single"
    /\ \A g \in ToProcess : tasks[g] # "running"
    /\ processed_count < Len(files_to_process)
    /\ tasks' = [tasks EXCEPT ![files_to_process[processed_count + 1]] = "running"]
    /\ processed_count' = processed_count + 1
    /\ UNCHANGED <<pc, args, config, ast, scanned, files_to_process, worker_count,
                   lines_read, results, all_matched_records, stats, output_file,
                   interrupted, exit_code>>
    /\ UNCHANGED <<asmVars, fltVars, queryVars, unitVars>>

\* The single-worker path: the call returns and its result is handled
SingleFinish(f) ==
    /\ pc = "single"
    /\ tasks[f] = "running"
    /\ \E read \in FileReads :
        LET result == TaskResult(f, read)
            agg == AggregateSingle([stats |-> stats,
                                    all_matched_records |-> all_matched_records],
                                   result)
        IN  /\ lines_read' = [lines_read EXCEPT ![f] = read]
            /\ results' = [results EXCEPT ![f] = result]
            /\ stats' = agg.stats
            /\ all_matched_records' = agg.all_matched_records
    /\ tasks' = [tasks EXCEPT ![f] = "collected"]
    /\ pc' = IF processed_count = Len(files_to_process) THEN "write" ELSE "single"
    /\ UNCHANGED <<args, config, ast, scanned, files_to_process, worker_count,
                   processed_count, output_file, interrupted, exit_code>>
    /\ UNCHANGED <<asmVars, fltVars, queryVars, unitVars>>

\* WriteOutput without the test of all_matched_records: the file is opened
\* for writing whatever the list holds
WriteOutputUnguarded ==
    /\ pc = "write"
    /\ \E writable \in BOOLEAN :
          output_file' =
              IF writable
              THEN [exists |-> TRUE, writes |-> WriteCalls(all_matched_records)]
              ELSE output_file
    /\ pc' = "finish"
    /\ UNCHANGED <<args, config, ast, scanned, files_to_process, worker_count,
                   processed_count, tasks, lines_read, results,
                   all_matched_records, stats, interrupted, exit_code>>
    /\ UNCHANGED <<asmVars, fltVars, queryVars, unitVars>>

\* _process_files: the final write.  open() may fail (the error is logged)
\* and then no file is made.
WriteOutput ==
    /\ pc = "write"
    /\ IF all_matched_records # <<>>
       THEN \E writable \in BOOLEAN :
               output_file' =
                   IF writable
                   THEN [exists |-> TRUE, writes |-> WriteCalls(all_matched_records)]
                   ELSE output_file
       ELSE UNCHANGED output_file
    /\ pc' = "finish"
    /\ UNCHANGED <<args, config, ast, scanned, files_to_process, worker_count,
                   processed_count, tasks, lines_read, results,
                   all_matched_records, stats, interrupted, exit_code>>
    /\ UNCHANGED <<asmVars, fltVars, queryVars, unitVars>>

\* _process_files and run return; main returns 0
RunReturn ==
    /\ pc = "finish"
    /\ Exit(0)
    /\ UNCHANGED <<args, config, ast, scanned, files_to_process, worker_count,
                   processed_count, tasks, lines_read, results,
                   all_matched_records, stats, output_file, interrupted>>
    /\ UNCHANGED <<asmVars, fltVars, queryVars, unitVars>>

\* Interrupt with the result loops catching the KeyboardInterrupt as they
\* catch an Exception: it is logged and the loop goes on
InterruptCaughtInLoop ==
    /\ pc \in { "construct", "run", "scan", "submit", "collect", "single",
                "write", "finish" }
    /\ interrupted' = TRUE
    /\ IF pc \in { "collect", "single" }
       THEN UNCHANGED <<pc, tasks, exit_code>>
       ELSE IF pc = "submit"
       THEN pc' = "shutdown" /\ UNCHANGED <<tasks, exit_code>>
       ELSE /\ Exit(130)
            /\ tasks' = [f \in Files |->
                            IF tasks[f] = "running" THEN "aborted" ELSE tasks[f]]
    /\ UNCHANGED <<args, config, ast, scanned, files_to_process, worker_count,
                   processed_count, lines_read, results, all_matched_records,
                   stats, output_file>>
    /\ UNCHANGED <<asmVars, fltVars, queryVars, unitVars>>

\* KeyboardInterrupt is raised in the orchestrator, inside main's second try.
\* Inside the with block of the multi-worker path it first runs the
\* executor's exit, shutdown(wait=True); in the single-worker path it ends
\* the call in progress; everywhere it then reaches main, which returns 130.
Interrupt ==
    /\ pc \in { "construct", "run", "scan", "submit", "collect", "single",
                "write", "finish" }
    /\ interrupted' = TRUE
    /\ IF pc \in { "submit", "collect" }
       THEN pc' = "shutdown" /\ UNCHANGED <<tasks, exit_code>>
       ELSE /\ Exit(130)
            /\ tasks' = [f \in Files |->
                            IF tasks[f] = "running" THEN "aborted" ELSE tasks[f]]
    /\ UNCHANGED <<args, config, ast, scanned, files_to_process, worker_count,
                   processed_count, lines_read, results, all_matched_records,
                   stats, output_file>>
    /\ UNCHANGED <<asmVars, fltVars, queryVars, unitVars>>

\* shutdown(wait=True) returns once no submitted work item is pending; the
\* KeyboardInterrupt then leaves run and main returns 130.
ShutdownDone ==
    /\ pc = "shutdown"
    /\ \A f \in ToProcess : tasks[f] \notin { "queued", "running" }
    /\ Exit(130)
    /\ UNCHANGED <<args, config, ast, scanned, files_to_process, worker_count,
                   processed_count, tasks, lines_read, results,
                   all_matched_records, stats, output_file, interrupted>>
    /\ UNCHANGED <<asmVars, fltVars, queryVars, unitVars>>

Next ==
    \/ MainParseArgs
    \/ PipelineConstruct
    \/ RunParseExpression
    \/ RunScan
    \/ RunDryRun
    \/ RunNoFiles
    \/ ProcessFilesBegin
    \/ Submit
    \/ \E f \in Files : WorkerStart(f)
    \/ \E f \in Files : WorkerFinish(f)
    \/ \E f \in Files : Collect(f)
    \/ CollectDone
    \/ SingleStart
    \/ \E f \in Files : SingleFinish(f)
    \/ WriteOutput
    \/ RunReturn
    \/ Interrupt
    \/ ShutdownDone

Spec == Init /\ [][Next]_vars

(***************************************************************************)
(* The record assembler on its own: one StreamingRecordParser whose        *)
(* parse_lines generator is advanced line by line                          *)
(* (processing/record_parser.py).                                          *)
(***************************************************************************)

\* The longest input of the assembler runs
MaxLines == 4

\* The lines of the assembler runs: two lines that start a record, of
\* different sizes, and three that continue one (ASCII, a two-byte
\* character, the empty line)
AsmLines == { LineErrK, LineK2, LineCont, <<TwoByteChar>>, <<>> }

AsmInputs == UNION { [1..n -> AsmLines] : n \in 0..MaxLines }

\* The caps of the assembler runs: none, the size of the shorter start line,
\* and the size of that line with one continuation line
AsmCaps == { NoLimit, Utf8Len(LineErrK), Utf8Len(LineErrK) + Utf8Len(LineCont) }

AsmInit ==
    /\ args = BaseArgs
    /\ PipelineInit
    /\ FwIdle
    /\ ScIdle
    /\ BwIdle
    /\ asm_input \in AsmInputs
    /\ asm_cap \in AsmCaps
    /\ asm = ParseLinesInit
    /\ asm_done = FALSE
    /\ FltIdle
    /\ QueryIdle

\* The generator takes the next line of its input: one iteration of the for
\* loop, which ends the generator when it raises
AsmLine ==
    /\ ~ asm_done
    /\ asm.line_number < Len(asm_input)
    /\ asm' = ParseLinesStep(asm, asm_input[asm.line_number + 1], asm_cap)
    /\ asm_done' = asm'.raised
    /\ UNCHANGED <<asm_input, asm_cap>>
    /\ UNCHANGED <<pipelineVars, fltVars, queryVars, unitVars>>

\* The input is exhausted: the code after the for loop, and the generator
\* returns
AsmEnd ==
    /\ ~ asm_done
    /\ asm.line_number = Len(asm_input)
    /\ asm' = [asm EXCEPT !.yielded = ParseLinesEnd(asm)]
    /\ asm_done' = TRUE
    /\ UNCHANGED <<asm_input, asm_cap>>
    /\ UNCHANGED <<pipelineVars, fltVars, queryVars, unitVars>>

AsmNext ==
    \/ AsmLine
    \/ AsmEnd

SpecAssembler == AsmInit /\ [][AsmNext]_vars

(***************************************************************************)
(* The record filters on their own: the filters a worker task builds from  *)
(* a search configuration, asked about one record (domain/filters.py).     *)
(***************************************************************************)

\* The days a date bound may name: the days of the records and the next one
FltDays == { DayOf(Date1), DayOf(Date2), DayOf(Date2) + 1 }

\* The times a time bound may name: the time of the records, a second
\* earlier and a second later
FltTimes == { SecondOfDay - 1, SecondOfDay, SecondOfDay + 1 }

\* The bounds SearchConfig and the filters' constructors accept: a range with
\* both ends set has from <= to
FltSearches ==
    { s \in [date_from : FltDays \cup {NoBound}, date_to : FltDays \cup {NoBound},
             time_from : FltTimes \cup {NoBound}, time_to : FltTimes \cup {NoBound}] :
        /\ (s.date_from # NoBound /\ s.date_to # NoBound) => s.date_from <= s.date_to
        /\ (s.time_from # NoBound /\ s.time_to # NoBound) => s.time_from <= s.time_to }

\* The records of the filter runs: what the assembler makes of a header line
\* of the first day, of the second day, and of a date that is no calendar
\* day (its record has no timestamp)
FltRecords ==
    { ParseLines(<<l>>, NoLimit).records[1] : l \in { LineErrK, LineInfo, LineBadK } }

FltInit ==
    /\ args = BaseArgs
    /\ PipelineInit
    /\ FwIdle
    /\ ScIdle
    /\ BwIdle
    /\ AsmIdle
    /\ QueryIdle
    /\ flt_search \in FltSearches
    /\ flt_record \in FltRecords
    /\ flt_verdict = [date |-> NotAsked, time |-> NotAsked, record |-> NotAsked]

\* DateRangeFilter(date_from, date_to).matches(record)
FltDate ==
    /\ flt_verdict.date = NotAsked
    /\ flt_verdict' = [flt_verdict EXCEPT !.date =
           Verdict(DateRangeFilterMatches(flt_search.date_from, flt_search.date_to,
                                          flt_record))]
    /\ UNCHANGED <<flt_search, flt_record>>
    /\ UNCHANGED <<pipelineVars, asmVars, queryVars, unitVars>>

\* TimeRangeFilter(time_from, time_to).matches(record)
FltTime ==
    /\ flt_verdict.time = NotAsked
    /\ flt_verdict' = [flt_verdict EXCEPT !.time =
           Verdict(TimeRangeFilterMatches(flt_search.time_from, flt_search.time_to,
                                          flt_record))]
    /\ UNCHANGED <<flt_search, flt_record>>
    /\ UNCHANGED <<pipelineVars, asmVars, queryVars, unitVars>>

\* The worker task's record_filter.matches(record)
FltRecord ==
    /\ flt_verdict.record = NotAsked
    /\ flt_verdict' = [flt_verdict EXCEPT !.record =
           Verdict(RecordFilterMatches(flt_search, flt_record))]
    /\ UNCHANGED <<flt_search, flt_record>>
    /\ UNCHANGED <<pipelineVars, asmVars, queryVars, unitVars>>

FltNext ==
    \/ FltDate
    \/ FltTime
    \/ FltRecord

SpecFilter == FltInit /\ [][FltNext]_vars

(***************************************************************************)
(* The expression core on its own: a search expression is tokenized,       *)
(* parsed and evaluated against a text the way a worker task evaluates it  *)
(* against a record (core/tokenizer.py, core/parser.py, core/evaluator.py, *)
(* processing/pipeline.py).                                                *)
(***************************************************************************)

\* The longest expression, in lexemes, of the runs over every expression
MaxTokens == 4

\* The lexemes those expressions are made of
Lexemes == { <<"k">>, <<"x">>, KwAND, KwOR, KwNOT, <<"(">>, <<")">> }

\* " ".join(parts)
RECURSIVE JoinWithSpaces(_)
JoinWithSpaces(parts) ==
    IF parts = <<>> THEN <<>>
    ELSE IF Len(parts) = 1 THEN parts[1]
    ELSE parts[1] \o <<" ">> \o JoinWithSpaces(Tail(parts))

\* Every expression of at most MaxTokens lexemes separated by one blank
LexemeExpressions ==
    { JoinWithSpaces(p) : p \in UNION { [1..n -> Lexemes] : n \in 0..MaxTokens } }

\* Longer expressions, and expressions with quotes, with other blanks or none,
\* with keywords inside words or in lower case, and with a pattern that is
\* no regular expression
WrittenExpressions ==
    { <<"k", " ", "O", "R", " ", "x", " ", "A", "N", "D", " ", "k">>,
      <<"k", " ", "A", "N", "D", " ", "x", " ", "O", "R", " ", "k">>,
      <<"k", " ", "A", "N", "D", " ", "x", " ", "A", "N", "D", " ", "k">>,
      <<"k", " ", "O", "R", " ", "x", " ", "O", "R", " ", "k">>,
      <<"(", " ", "k", " ", "O", "R", " ", "x", " ", ")", " ", "A", "N", "D", " ", "k">>,
      <<"k", " ", "A", "N", "D", " ", "(", " ", "x", " ", "O", "R", " ", "k", " ", ")">>,
      <<"N", "O", "T", " ", "(", " ", "k", " ", "O", "R", " ", "x", " ", ")">>,
      <<"N", "O", "T", " ", "N", "O", "T", " ", "k", " ", "A", "N", "D", " ", "x">>,
      <<"(", "(", "k", ")", ")">>,
      <<"(", "k", ")", "a", "n", "d", "(", "x", ")">>,
      <<"k", " ", " ", "o", "r", "\t", "x">>,
      <<"k", "A", "N", "D", "x">>,
      <<"k", "_", "A", "N", "D", " ", "x">>,
      <<"n", "o", "t", "a">>,
      <<"\"", "k", " ", "x", "\"">>,
      <<"'", "k", "'">>,
      <<"\"", "\"">>,
      <<"\"", "A", "N", "D", "\"">>,
      <<"\"", "(", "\"">>,
      <<"'", "\"", "k", "\"", "'">>,
      <<"\"", "k">>,
      <<"[">>,
      <<"[", " ", "O", "R", " ", "k">>,
      <<"k", " ", "O", "R", " ", "[">>,
      <<"k", " ", "A", "N", "D", " ", "[">>,
      <<"x", " ", "A", "N", "D", " ", "[">>,
      <<"N", "O", "T", " ", "[">>,
      <<"(", "k", ")", "a", "n", "d">>,
      <<"(", "(">> }

Expressions == LexemeExpressions \cup WrittenExpressions

\* The texts an expression is evaluated against
Texts ==
    { <<"k">>, <<"K", " ", "x">>, <<"k", "_", "x">>, <<"x", "k">>,
      <<"\"", "k", "\"", ":", "x">>, <<"e">> }

\* The match options of a search configuration
MatchOptions ==
    { o \in [ignore_case : BOOLEAN, use_regex : BOOLEAN,
              word_boundary : BOOLEAN, strip_quotes : BOOLEAN] :
        (o.word_boundary \/ o.strip_quotes) => ~ o.use_regex }

QueryInit ==
    /\ args = BaseArgs
    /\ PipelineInit
    /\ FwIdle
    /\ ScIdle
    /\ BwIdle
    /\ AsmIdle
    /\ FltIdle
    /\ q_expression \in Expressions
    /\ q_tokens = NotYet
    /\ q_retokens = NotYet
    /\ q_ast = NotYet
    /\ q_eval = NotYet

\* tokens = Tokenizer(expression).tokenize()
QueryTokenize ==
    /\ ~ q_tokens.done
    /\ q_tokens' = [done |-> TRUE, r |-> tokenize(q_expression)]
    /\ UNCHANGED <<q_expression, q_retokens, q_ast, q_eval>>
    /\ UNCHANGED <<pipelineVars, asmVars, fltVars, unitVars>>

\* The token values are joined by single blanks and tokenized again
QueryRetokenize ==
    /\ q_tokens.done
    /\ q_tokens.r.ok
    /\ ~ q_retokens.done
    /\ q_retokens' =
           [done |-> TRUE,
            r |-> tokenize(JoinWithSpaces(
                      [i \in 1..Len(q_tokens.r.tokens) |->
                          q_tokens.r.tokens[i].value]))]
    /\ UNCHANGED <<q_expression, q_tokens, q_ast, q_eval>>
    /\ UNCHANGED <<pipelineVars, asmVars, fltVars, unitVars>>

\* ast = ExpressionParser(tokens).parse()
QueryParse ==
    /\ q_tokens.done
    /\ q_tokens.r.ok
    /\ ~ q_ast.done
    /\ q_ast' = [done |-> TRUE, r |-> ParserParse(q_tokens.r.tokens)]
    /\ UNCHANGED <<q_expression, q_tokens, q_retokens, q_eval>>
    /\ UNCHANGED <<pipelineVars, asmVars, fltVars, unitVars>>

\* The worker task's evaluate(ast, record.content, config.search.ignore_case,
\* config.search.use_regex): the other options of the search configuration
\* are not handed to the evaluator
QueryEvaluate ==
    /\ q_ast.done
    /\ q_ast.r.ok
    /\ ~ q_eval.done
    /\ \E text \in Texts, options \in MatchOptions :
           q_eval' = [done |-> TRUE, text |-> text, options |-> options,
                      result |-> evaluate(q_ast.r.node, text,
                                          options.ignore_case,
                                          options.use_regex)]
    /\ UNCHANGED <<q_expression, q_tokens, q_retokens, q_ast>>
    /\ UNCHANGED <<pipelineVars, asmVars, fltVars, unitVars>>

QueryNext ==
    \/ QueryTokenize
    \/ QueryRetokenize
    \/ QueryParse
    \/ QueryEvaluate

SpecQuery == QueryInit /\ [][QueryNext]_vars

(***************************************************************************)
(* What the claims speak about                                             *)
(***************************************************************************)

\* The records written to the output file, in order: its writes without the
\* newlines written between records
OutputRecords == SelectSeq(output_file.writes, LAMBDA w : w # <<"\n">>)

\* How often x occurs in seq
CountIn(seq, x) == Cardinality({ i \in 1..Len(seq) : seq[i] = x })

\* seq1 and seq2 hold the same elements the same number of times
SameBag(seq1, seq2) ==
    \A x \in { seq1[i] : i \in 1..Len(seq1) } \cup { seq2[i] : i \in 1..Len(seq2) } :
        CountIn(seq1, x) = CountIn(seq2, x)

\* The records of file f as the assembler puts them together from the lines
\* the file held, up to a record over the size cap
AssembledRecords(f) ==
    IF lines_read[f].ok
    THEN ParseLines(lines_read[f].lines, MaxRecordSizeBytes(config)).records
    ELSE <<>>

\* record passes the date/time filter and the expression is true of it
Passes(record) ==
    /\ RecordFilterMatches(config.search, record)
    /\ LET e == evaluate(ast, record.content, config.search.ignore_case,
                         config.search.use_regex)
       IN  ~ e.raised /\ e.value

\* A record in the form the output holds it
OutputForm(f, record) ==
    IF config.output.include_file_path
    THEN WithPath(f, record.content)
    ELSE record.content

\* The records of file f that belong in the output, in file order
ExpectedRecords(f) ==
    LET passing == SelectSeq(AssembledRecords(f), Passes)
    IN  [i \in 1..Len(passing) |-> OutputForm(f, passing[i])]

\* The expected records of the first n files of files_to_process
RECURSIVE ExpectedUpTo(_)
ExpectedUpTo(n) ==
    IF n = 0 THEN <<>>
    ELSE ExpectedUpTo(n - 1) \o ExpectedRecords(files_to_process[n])

\* The worker tasks whose result the orchestrator has handled
Handled == { f \in ToProcess : tasks[f] = "collected" }
\* ... and those among them that returned an error
Failed == { f \in Handled : results[f].error # "" }

\* A non-dry run has ended normally and, if it had records to write, it
\* could open the output file
RunEndedWritten ==
    /\ pc = "exit"
    /\ exit_code = 0
    /\ config # NoConfig
    /\ ~ config.output.dry_run
    /\ (output_file.exists \/ all_matched_records = <<>>)

\* C1: after a non-dry run the records of the output file are exactly the
\* assembled records, over all to-process files, that pass the date/time
\* filter and of which the expression is true: none missing, none added.
C1_PipelineCompleteness ==
    RunEndedWritten =>
        SameBag(OutputRecords, ExpectedUpTo(Len(files_to_process)))

\* The sum of the per-file counter k over the files of S
RECURSIVE SumStat(_, _)
SumStat(S, k) ==
    IF S = {} THEN 0
    ELSE LET f == CHOOSE x \in S : TRUE
         IN  results[f].stats_dict[k] + SumStat(S \ {f}, k)

\* The global counter that the per-file counter k is merged into
GlobalStat(k) ==
    CASE k = "files_processed"       -> stats.files_processed
      [] k = "records_total"         -> stats.records_total
      [] k = "records_matched"       -> stats.records_matched
      [] k = "records_skipped"       -> stats.records_skipped
      [] k = "total_bytes_processed" -> stats.total_bytes_processed
      [] k = "total_lines_processed" -> stats.total_lines_processed

StatKeys ==
    { "files_processed", "records_total", "records_matched", "records_skipped",
      "total_bytes_processed", "total_lines_processed" }

\* C2: when _process_files has handled every result, each global counter
\* equals the sum of that counter over the files whose task completed, on
\* the single-worker path as on the multi-worker path.
C2_EachCounterMergedOnce ==
    pc = "finish" =>
        \A k \in StatKeys : GlobalStat(k) = SumStat(Handled \ Failed, k)

\* No worker task is waiting for a pool process or running
NoTaskPending == \A f \in Files : tasks[f] \notin { "queued", "running" }

\* C3 (amended): the output file is written at most once per run, by the
\* orchestrator at its final write step, and only when every dispatched
\* worker task has completed and been collected: each change of the file
\* is made at that step, to a file not yet written in this run, while no
\* worker task is queued or running.
C3_WriteOnceAfterAllTasks ==
    [][output_file' # output_file =>
          /\ pc = "write"
          /\ ~ output_file.exists
          /\ NoTaskPending
          /\ \A f \in ToProcess : tasks[f] = "collected"]_vars

\* C3 witness: a multi-worker run over two files has written the output
C3_Witness ==
    /\ output_file.exists
    /\ UseMultiprocessing(worker_count)
    /\ Len(files_to_process) = NumFiles

\* C3 as stated: the above, and every run writes the file (exactly once)
C3_WrittenExactlyOncePerRun ==
    /\ C3_WriteOnceAfterAllTasks
    /\ [](pc = "exit" /\ exit_code = 0 /\ config # NoConfig
             /\ ~ config.output.dry_run => output_file.exists)

\* C4: when a record over the size cap ends the processing of a file, the
\* records of that file matched before it are retained: they are among the
\* records the orchestrator aggregates for the output.
C4_MatchesBeforeOversizeRetained ==
    \A f \in Handled :
        results[f].error = "RecordSizeExceededError" =>
            \A i \in 1..Len(ExpectedRecords(f)) :
                CountIn(all_matched_records, ExpectedRecords(f)[i]) > 0

\* The sum of the skip-reason counters of the reasons of S
RECURSIVE SumReasons(_)
SumReasons(S) ==
    IF S = {} THEN 0
    ELSE LET r == CHOOSE x \in S : TRUE
         IN  stats.skip_reasons[r] + SumReasons(S \ {r})

\* C5: a worker result with an error adds one to the skipped-files count and
\* to a skip-reason counter, and nothing of the file to the other counters:
\* when every result is handled, the skipped files are the files the scan
\* skipped and the files whose task returned an error.
C5_FailedFileCountedAsSkipped ==
    pc \in { "write", "finish" } =>
        /\ stats.files_skipped =
               (stats.files_scanned - Len(files_to_process)) + Cardinality(Failed)
        /\ SumReasons(SkipReasons) = stats.files_skipped
        /\ stats.files_processed = Cardinality(Handled \ Failed)

\* The expected records of the files of files_to_process[1..n] whose worker
\* task returned without an error, file after file
RECURSIVE ExpectedOfCompleted(_)
ExpectedOfCompleted(n) ==
    IF n = 0 THEN <<>>
    ELSE ExpectedOfCompleted(n - 1) \o
         (IF files_to_process[n] \in Handled \ Failed
          THEN ExpectedRecords(files_to_process[n])
          ELSE <<>>)

\* _process_files has begun
ProcessingBegun == worker_count > 0

\* C6: a failure while one file is processed comes back as the error string
\* of that file's result and does not end the run: a run that is not
\* interrupted handles every result and ends normally, and at its end the
\* matches and the record counters of every file that did not fail are
\* aggregated, and the aggregated matches are what the output file holds.
C6_FileFailureIsolated ==
    /\ (pc = "exit" /\ ProcessingBegun /\ ~ interrupted) =>
           (exit_code = 0 /\ Handled = ToProcess)
    /\ (pc = "finish") =>
           /\ SameBag(all_matched_records,
                      ExpectedOfCompleted(Len(files_to_process)))
           /\ stats.records_total = SumStat(Handled \ Failed, "records_total")
           /\ stats.records_matched = SumStat(Handled \ Failed, "records_matched")
           /\ stats.files_processed = Cardinality(Handled \ Failed)
           /\ output_file.exists => OutputRecords = all_matched_records

\* C6 witness: a run has ended normally in which one file failed and the
\* matches of the other file were written
C6_Witness ==
    /\ pc = "exit"
    /\ exit_code = 0
    /\ Failed # {}
    /\ Handled \ Failed # {}
    /\ output_file.exists
    /\ OutputRecords # <<>>

\* The records of seq that carry the path of file f
RecordsOfFile(seq, f) ==
    SelectSeq(seq, LAMBDA r : r # <<>> /\ r[1] = PathAtom(f))

\* sub is a subsequence of seq: its elements, in its order, are in seq
RECURSIVE IsSubsequence(_, _)
IsSubsequence(sub, seq) ==
    IF sub = <<>> THEN TRUE
    ELSE IF seq = <<>> THEN FALSE
    ELSE IF Head(sub) = Head(seq) THEN IsSubsequence(Tail(sub), Tail(seq))
    ELSE IsSubsequence(sub, Tail(seq))

\* C7: the matched records of one file are in the output in the order they
\* have in the file.  With the path prefix the records of file f in the
\* output are, in order, the expected records of f; without it the expected
\* records of f are a subsequence of the output.
C7_FileOrderPreserved ==
    output_file.exists =>
        \A f \in Handled \ Failed :
            IF config.output.include_file_path
            THEN RecordsOfFile(OutputRecords, f) = ExpectedRecords(f)
            ELSE IsSubsequence(ExpectedRecords(f), OutputRecords)

\* C7 witness: the output holds two different records of one file
C7_Witness ==
    /\ output_file.exists
    /\ \E f \in Handled \ Failed :
          /\ Len(ExpectedRecords(f)) >= 2
          /\ ExpectedRecords(f)[1] # ExpectedRecords(f)[2]

\* The expressions of the model that are not well formed
MalformedExpressions == { ExprUnbalanced, ExprUnterminated }

\* C8: when the expression cannot be parsed the run fails before a worker
\* task is dispatched and without writing the output file.
C8_ParseFailureFailsRun ==
    (config # NoConfig /\ config.search.expression \in MalformedExpressions) =>
        /\ pc \in { "construct", "run", "exit" }
        /\ \A f \in Files : tasks[f] = "new"
        /\ ~ ProcessingBegun
        /\ ~ output_file.exists
        /\ pc = "exit" => exit_code # 0

\* C8 witness: the run of a malformed expression has failed at the parse
C8_Witness ==
    /\ pc = "exit"
    /\ config # NoConfig
    /\ config.search.expression \in MalformedExpressions
    /\ ~ interrupted
    /\ exit_code = 1

\* The run fails because of a configuration error: the arguments are
\* invalid, a validation fails, the path is missing, or the expression
\* cannot be parsed
ConfigurationFailure ==
    \/ ParseArgs(args).outcome # "config"
    \/ ~ parse(args.expression).ok

\* C9: the exit code is 130 when the operator interrupted the run, 2 when
\* the run failed because of a configuration error, 0 on success (the model
\* has no other failure of a run).
C9_ExitCodes ==
    pc = "exit" =>
        exit_code = IF interrupted THEN 130
                    ELSE IF ConfigurationFailure THEN 2
                    ELSE 0

\* C10: once the interrupt is received the orchestrator dispatches no new
\* worker task: a task not dispatched stays so, hence the only tasks that
\* run to completion are tasks dispatched before the interrupt.
C10_NoDispatchAfterInterrupt ==
    [][interrupted =>
          \A f \in Files : tasks[f] = "new" => tasks'[f] = "new"]_vars

\* C10 witness: the interrupt came between two submissions; the run has
\* ended with the submitted task completed and the other never dispatched
C10_Witness ==
    /\ pc = "exit"
    /\ interrupted
    /\ \E f \in ToProcess : tasks[f] = "done"
    /\ \E f \in ToProcess : tasks[f] = "new"

\* C11: when the operator interrupts the run during processing (while
\* scanning, while a worker task runs, while results are aggregated), the
\* exit status of the process is 130.
C11_InterruptExits130 ==
    (pc = "exit" /\ interrupted) => exit_code = 130

\* C11 witness: the interrupt came while results were aggregated, one
\* collected and one completed and not yet collected; main has returned
C11_Witness ==
    /\ pc = "exit"
    /\ interrupted
    /\ exit_code = 130
    /\ \E f \in ToProcess : tasks[f] = "collected"
    /\ \E f \in ToProcess : tasks[f] = "done"

\* No record of a file the run processed matches: none of them passes the
\* date/time filter with the expression true of it
NoRecordMatches == \A f \in ToProcess : ExpectedRecords(f) = <<>>

\* C12: if no record matches in a run, the output file is not created.
C12_NoMatchNoOutputFile ==
    NoRecordMatches => ~ output_file.exists

\* C12 witness: a run that assembled records of a file and matched none of
\* them has ended normally
C12_Witness ==
    /\ pc = "exit"
    /\ exit_code = 0
    /\ \E f \in Handled \ Failed : AssembledRecords(f) # <<>>
    /\ NoRecordMatches
    /\ ~ output_file.exists

\* C13: with the dry-run flag set, run returns after the scan without
\* processing: no worker task is dispatched, no file is read, no record is
\* assembled or counted, and no output file is written.
C13_DryRunProcessesNothing ==
    (config # NoConfig /\ config.output.dry_run) =>
        /\ pc \in { "construct", "run", "scan", "exit" }
        /\ ~ ProcessingBegun
        /\ \A f \in Files : tasks[f] = "new" /\ lines_read[f] = NoRead
                              /\ results[f] = NoResult
        /\ stats.records_total = 0
        /\ stats.records_matched = 0
        /\ stats.records_skipped = 0
        /\ stats.files_processed = 0
        /\ all_matched_records = <<>>
        /\ ~ output_file.exists

\* C13 witness: a dry run whose scan found files to process has returned
C13_Witness ==
    /\ pc = "exit"
    /\ exit_code = 0
    /\ config.output.dry_run
    /\ Len(files_to_process) = NumFiles

\* C14: a worker task does not write the output file and does not touch
\* state shared with another task or the global statistics; all that the
\* orchestrator sees of it is the result it returns.  A step in which the
\* task of file f starts or returns in a pool process leaves the output
\* file, the global statistics, the aggregated records and the results of
\* the other tasks as they are, and the result is a function of the task's
\* own arguments and the content of its file.  In the single-worker path,
\* where the call and the handling of its result are one step, the output
\* file is left alone and the statistics and aggregated records change as
\* the handling of that result changes them.
C14_WorkerEffectIsItsResult ==
    [][\A f \in Files :
          /\ (tasks[f] # tasks'[f] /\ tasks'[f] \in { "running", "done" }) =>
                /\ UNCHANGED <<output_file, stats, all_matched_records>>
                /\ \A g \in Files \ {f} :
                      results'[g] = results[g] /\ lines_read'[g] = lines_read[g]
          /\ (tasks[f] = "running" /\ tasks'[f] \in { "done", "collected" }) =>
                /\ results'[f] = TaskResult(f, lines_read'[f])
                /\ UNCHANGED output_file
          /\ (tasks[f] = "running" /\ tasks'[f] = "collected") =>
                LET agg == AggregateSingle(
                               [stats |-> stats,
                                all_matched_records |-> all_matched_records],
                               results'[f])
                IN  /\ stats' = agg.stats
                    /\ all_matched_records' = agg.all_matched_records]_vars

\* C14 witness: a task in a pool process has returned matches, and the
\* global statistics and the aggregated records do not show them
C14_Witness ==
    /\ \E f \in ToProcess : tasks[f] = "done" /\ results[f].matches > 0
    /\ stats.records_matched = 0
    /\ all_matched_records = <<>>
    /\ ~ output_file.exists

\* The command line gives a worker count that is not positive or is over
\* the platform cap
UserWorkerCountInvalid ==
    args.workers_flag /\ (args.workers <= 0 \/ args.workers > MaxWorkersLinux)

\* C15: a worker count given by the user that is not positive or exceeds
\* the platform cap makes configuration fail, with a message that names the
\* cap; it is never accepted or replaced by another worker count.
C15_InvalidWorkerCountRejected ==
    (UserWorkerCountInvalid /\ pc # "main") =>
        /\ pc = "exit"
        /\ exit_code = 2
        /\ config = NoConfig
        /\ WorkerCountError(ConfigOfArgs(args).processing.worker_count).names_cap

(***************************************************************************)
(* What the claims about the assembler speak about                         *)
(***************************************************************************)

\* The positions of the input lines that match the record-start pattern
StartLines(lines) == { i \in 1..Len(lines) : RecordStartMatch(lines[i]) }

\* The generator went through its whole input and returned
AsmExhausted == asm_done /\ ~ asm.raised

\* C16: an input with N lines matching the record-start pattern (N = 0 for
\* the empty input and for an input of continuation lines only) makes the
\* assembler emit exactly N records; without a cap it never raises, and with
\* a cap it emits the N records whenever the cap was not exceeded.
C16_OneRecordPerStartLine ==
    /\ asm_cap = NoLimit => ~ asm.raised
    /\ AsmExhausted => Len(asm.yielded) = Cardinality(StartLines(asm_input))

\* An input that begins with an orphan line and holds two start lines was
\* assembled under a cap into two records.
C16_Witness ==
    /\ AsmExhausted
    /\ asm_cap # NoLimit
    /\ Len(asm_input) = MaxLines
    /\ ~ RecordStartMatch(asm_input[1])
    /\ Cardinality(StartLines(asm_input)) = 2
    /\ Len(asm.yielded) = 2

\* The position of the first start line, past the end when there is none
FirstStart(lines) ==
    IF StartLines(lines) = {} THEN Len(lines) + 1
    ELSE CHOOSE i \in StartLines(lines) : \A j \in StartLines(lines) : i <= j

\* The contents of the records, in emission order
RecordContents(records) == [k \in 1..Len(records) |-> records[k].content]

\* C17: once the input is exhausted, the contents of the emitted records
\* joined by newlines are the input lines from the first start line onward
\* joined by newlines; the records cover those lines consecutively, each
\* line in exactly one record and in input order, and no line before the
\* first start line is in any record.
C17_RecordsPartitionInput ==
    AsmExhausted =>
        LET n == Len(asm.yielded)
            first == FirstStart(asm_input) IN
        /\ JoinLines(RecordContents(asm.yielded))
               = JoinLines(SubSeq(asm_input, first, Len(asm_input)))
        /\ n > 0 => /\ asm.yielded[1].start_line = first
                    /\ asm.yielded[n].end_line = Len(asm_input)
        /\ \A k \in 1..n :
               /\ asm.yielded[k].start_line <= asm.yielded[k].end_line
               /\ asm.yielded[k].content
                      = JoinLines(SubSeq(asm_input, asm.yielded[k].start_line,
                                         asm.yielded[k].end_line))
               /\ k < n => asm.yielded[k + 1].start_line
                               = asm.yielded[k].end_line + 1

\* An orphan line was dropped and the rest of the input became a multi-line
\* record followed by another record.
C17_Witness ==
    /\ AsmExhausted
    /\ FirstStart(asm_input) = 2
    /\ Len(asm.yielded) = 2
    /\ asm.yielded[1].end_line > asm.yielded[1].start_line

\* C19: every emitted record's size_bytes is the UTF-8 byte length of its
\* content, the buffered lines joined by newlines.
C19_SizeIsContentBytes ==
    \A k \in 1..Len(asm.yielded) :
        asm.yielded[k].size_bytes = Utf8Len(asm.yielded[k].content)

\* The part of C19 about records of one line
C19_SingleLineSizeIsContentBytes ==
    \A k \in 1..Len(asm.yielded) :
        asm.yielded[k].start_line = asm.yielded[k].end_line
            => asm.yielded[k].size_bytes = Utf8Len(asm.yielded[k].content)

\* What size_bytes is: the content's bytes less one for each line joint
C19_SizeOmitsJoiningNewlines ==
    \A k \in 1..Len(asm.yielded) :
        asm.yielded[k].size_bytes
            = Utf8Len(asm.yielded[k].content)
                - (asm.yielded[k].end_line - asm.yielded[k].start_line)

\* The byte length of the content the buffered lines make
BufferedContentBytes == Utf8Len(JoinLines(asm.current_lines))

\* The bytes of the buffered lines, line endings and joints left out
RECURSIVE LineBytes(_)
LineBytes(lines) ==
    IF lines = <<>> THEN 0 ELSE Utf8Len(Head(lines)) + LineBytes(Tail(lines))

\* C18: with a cap of C bytes, a record of exactly C bytes is accepted (and
\* emitted when it ends) and a record of C + 1 bytes raises
\* RecordSizeExceededError, the size of a record being the byte length of
\* its content: the generator has raised exactly when the record it is
\* buffering is over the cap, and every emitted record is within the cap.
C18_CapBoundary ==
    asm_cap # NoLimit =>
        /\ asm.current_lines # <<>> =>
               (asm.raised <=> BufferedContentBytes > asm_cap)
        /\ \A k \in 1..Len(asm.yielded) :
               Utf8Len(asm.yielded[k].content) <= asm_cap

\* The part of C18 about records of one line
C18_CapBoundarySingleLine ==
    (asm_cap # NoLimit /\ Len(asm.current_lines) = 1) =>
        (asm.raised <=> BufferedContentBytes > asm_cap)

\* What the cap bounds: the bytes of the lines without their joints
C18_CapBoundaryOnLineBytes ==
    asm_cap # NoLimit =>
        /\ asm.current_lines # <<>> =>
               (asm.raised <=> LineBytes(asm.current_lines) > asm_cap)
        /\ \A k \in 1..Len(asm.yielded) :
               asm.yielded[k].size_bytes <= asm_cap

\* A one-line record of exactly the cap was emitted and the next record, one
\* byte over the cap, raised.
C18_BoundaryReached ==
    /\ asm_cap # NoLimit
    /\ asm.raised
    /\ Len(asm.current_lines) = 1
    /\ BufferedContentBytes = asm_cap + 1
    /\ \E k \in 1..Len(asm.yielded) :
           Utf8Len(asm.yielded[k].content) = asm_cap

\* C20: in every emitted record the first line matches the record-start
\* pattern and no other line of the record does; the record's lines are the
\* input lines start_line..end_line and first_line is the first of them.
C20_OnlyFirstLineStartsRecord ==
    \A k \in 1..Len(asm.yielded) :
        LET r == asm.yielded[k] IN
        /\ r.start_line \in 1..Len(asm_input)
        /\ r.end_line \in r.start_line..Len(asm_input)
        /\ r.first_line = asm_input[r.start_line]
        /\ RecordStartMatch(r.first_line)
        /\ \A i \in (r.start_line + 1)..r.end_line :
               ~ RecordStartMatch(asm_input[i])

\* A record of two lines was emitted between two other start lines.
C20_Witness ==
    /\ asm_done
    /\ \E k \in 1..Len(asm.yielded) :
           /\ asm.yielded[k].end_line = asm.yielded[k].start_line + 1
           /\ asm.yielded[k].start_line > 1
           /\ asm.yielded[k].end_line < Len(asm_input)
           /\ RecordStartMatch(asm_input[1])

\* The number of lines of a content: its newlines and one
ContentLines(content) ==
    Cardinality({ i \in 1..Len(content) : content[i] = "\n" }) + 1

\* C21: every emitted record's start_line is the 1-based number of the input
\* line that started it and its end_line the number of its last buffered
\* line: start_line <= end_line, the record has end_line - start_line + 1
\* lines, which are the input lines start_line..end_line, and each next
\* record starts at the previous record's end_line + 1.
C21_LineNumbersOfRecords ==
    \A k \in 1..Len(asm.yielded) :
        LET r == asm.yielded[k] IN
        /\ r.start_line \in 1..Len(asm_input)
        /\ r.end_line \in 1..Len(asm_input)
        /\ r.start_line <= r.end_line
        /\ RecordStartMatch(asm_input[r.start_line])
        /\ r.content = JoinLines(SubSeq(asm_input, r.start_line, r.end_line))
        /\ ContentLines(r.content) = r.end_line - r.start_line + 1
        /\ k > 1 => r.start_line = asm.yielded[k - 1].end_line + 1
        /\ k = Len(asm.yielded) =>
               \/ r.end_line = Len(asm_input) /\ AsmExhausted
               \/ /\ r.end_line < Len(asm_input)
                  /\ RecordStartMatch(asm_input[r.end_line + 1])
                  /\ asm.line_number > r.end_line

\* A record of three lines that begins the input was emitted and then a
\* record that begins at the fourth line.
C21_Witness ==
    /\ Len(asm.yielded) = 2
    /\ asm.yielded[1].start_line = 1
    /\ asm.yielded[1].end_line = 3
    /\ asm.yielded[2].start_line = 4

\* What the generator retains between two lines: its locals, without the
\* records it has handed to its consumer
AsmLocals(st) ==
    [current_lines      |-> st.current_lines,
     current_size_bytes |-> st.current_size_bytes,
     first_line_info    |-> st.first_line_info,
     start_line         |-> st.start_line,
     line_number        |-> st.line_number]

\* The generator with the records it has yielded forgotten
AsmForgetYielded(st) == [st EXCEPT !.yielded = <<>>]

\* The lines buffered are those of the record in progress and no others
AsmHoldsOneRecord ==
    asm.current_lines # <<>> =>
        /\ asm.current_lines
               = SubSeq(asm_input, asm.start_line, asm.line_number)
        /\ RecordStartMatch(asm_input[asm.start_line])
        /\ \A i \in (asm.start_line + 1)..asm.line_number :
               ~ RecordStartMatch(asm_input[i])

\* With a cap, a generator that has not raised buffers at most the cap, and
\* every record it emitted is within the cap
AsmWithinCap ==
    asm_cap # NoLimit =>
        /\ ~ asm.raised => LineBytes(asm.current_lines) <= asm_cap
        /\ \A k \in 1..Len(asm.yielded) :
               asm.yielded[k].size_bytes <= asm_cap

\* A step of the generator hands over at most one record, made of the lines
\* that were buffered, and works from its locals alone
AsmStepEmitsAtMostOne ==
    /\ Len(asm'.yielded) <= Len(asm.yielded) + 1
    /\ SubSeq(asm'.yielded, 1, Len(asm.yielded)) = asm.yielded
    /\ Len(asm'.yielded) = Len(asm.yielded) + 1 =>
           asm'.yielded[Len(asm'.yielded)].content
               = JoinLines(asm.current_lines)
    /\ asm.line_number < Len(asm_input) =>
           AsmLocals(asm')
               = AsmLocals(ParseLinesStep(AsmForgetYielded(asm),
                                          asm_input[asm.line_number + 1],
                                          asm_cap))

FromAllows(from, v) == from = NoBound \/ from <= v
ToAllows(to, v) == to = NoBound \/ v <= to

\* C24: for a record that has a timestamp, the date filter accepts it exactly
\* when date_from <= record date <= date_to, both bounds inclusive and an
\* unset bound imposing nothing; the time filter likewise on the time of
\* day; and the filter of a worker accepts it exactly when both do.
C24_RangeFiltersInclusive ==
    flt_record.timestamp.set =>
        /\ flt_verdict.date.asked =>
               (flt_verdict.date.matches <=>
                    /\ FromAllows(flt_search.date_from, flt_record.timestamp.date)
                    /\ ToAllows(flt_search.date_to, flt_record.timestamp.date))
        /\ flt_verdict.time.asked =>
               (flt_verdict.time.matches <=>
                    /\ FromAllows(flt_search.time_from, flt_record.timestamp.time)
                    /\ ToAllows(flt_search.time_to, flt_record.timestamp.time))
        /\ flt_verdict.record.asked =>
               (flt_verdict.record.matches <=>
                    /\ FromAllows(flt_search.date_from, flt_record.timestamp.date)
                    /\ ToAllows(flt_search.date_to, flt_record.timestamp.date)
                    /\ FromAllows(flt_search.time_from, flt_record.timestamp.time)
                    /\ ToAllows(flt_search.time_to, flt_record.timestamp.time))

\* A record whose date is both bounds of the date range and whose time is
\* the upper bound of the time range was accepted by all three filters.
C24_Witness ==
    /\ flt_record.timestamp.set
    /\ flt_search.date_from = flt_record.timestamp.date
    /\ flt_search.date_to = flt_record.timestamp.date
    /\ flt_search.time_from = NoBound
    /\ flt_search.time_to = flt_record.timestamp.time
    /\ flt_verdict = [date |-> Verdict(TRUE), time |-> Verdict(TRUE),
                      record |-> Verdict(TRUE)]

\* The part of C24 about a run: every record written to the output file has
\* a timestamp inside the configured date range.
C24_RunOutputsInRange ==
    \A i \in 1..Len(OutputRecords) :
        \E f \in Files : \E k \in 1..Len(AssembledRecords(f)) :
            LET r == AssembledRecords(f)[k] IN
            /\ OutputForm(f, r) = OutputRecords[i]
            /\ (config.search.date_from # NoBound \/ config.search.date_to # NoBound)
                   => /\ r.timestamp.set
                      /\ FromAllows(config.search.date_from, r.timestamp.date)
                      /\ ToAllows(config.search.date_to, r.timestamp.date)

(***************************************************************************)
(* What the claims about the expression core speak about                   *)
(***************************************************************************)

\* The AST that was evaluated
EvaluatedAst == q_ast.r.node

\* A word character of regular expressions: [A-Za-z0-9_]
IsWordChar(c) == IsAlnum(c) \/ c = "_"

\* \b holds in text after pos characters: a word character on exactly one
\* side, the edges of the text counting as non-word characters
AtWordBoundary(text, pos) ==
    (pos > 0 /\ IsWordChar(text[pos]))
        # (pos < Len(text) /\ IsWordChar(text[pos + 1]))

\* pattern occurs in text with \b on both sides
ContainsAsWord(text, pattern) ==
    \E i \in 0..(Len(text) - Len(pattern)) :
        /\ SubSeq(text, i + 1, i + Len(pattern)) = pattern
        /\ AtWordBoundary(text, i)
        /\ AtWordBoundary(text, i + Len(pattern))

\* An evaluation of a single Word was made with regex off
WordEvaluated ==
    /\ q_eval.done
    /\ ~ q_eval.options.use_regex
    /\ EvaluatedAst[1] = "WORD"
    /\ EvaluatedAst[2] # <<>>

\* C25: with word_boundary on and regex off, a Word matches a text only
\* where it occurs with a non-word character or the edge of the text on
\* both sides (\b), in the evaluation a run with the option makes.
C25_WordBoundaryMatch ==
    (WordEvaluated /\ q_eval.options.word_boundary) =>
        /\ ~ q_eval.result.raised
        /\ q_eval.result.value =
               IF q_eval.options.ignore_case
               THEN ContainsAsWord(LowerStr(q_eval.text), LowerStr(EvaluatedAst[2]))
               ELSE ContainsAsWord(q_eval.text, EvaluatedAst[2])

\* What the code does with word_boundary: the option changes nothing
C25_WordBoundaryIgnored ==
    (WordEvaluated /\ q_eval.options.word_boundary) =>
        q_eval.result =
            evaluate(EvaluatedAst, q_eval.text, q_eval.options.ignore_case, FALSE)

\* The quote characters of the model's alphabet
IsQuote(c) == c \in { "\"", "'" }

\* pattern is written with surrounding quotes
Quoted(pattern) ==
    /\ Len(pattern) >= 3
    /\ IsQuote(pattern[1])
    /\ pattern[Len(pattern)] = pattern[1]

\* The pattern inside the surrounding quotes
Unquoted(pattern) == SubSeq(pattern, 2, Len(pattern) - 1)

\* C26: with strip_quotes on and regex off, a pattern written with
\* surrounding quotes matches exactly the texts that the same pattern
\* without the quotes matches.
C26_StripQuotesFromPattern ==
    (WordEvaluated /\ q_eval.options.strip_quotes /\ Quoted(EvaluatedAst[2])) =>
        q_eval.result =
            evaluate(<<"WORD", Unquoted(EvaluatedAst[2])>>, q_eval.text,
                     q_eval.options.ignore_case, q_eval.options.use_regex)

\* What the code does with strip_quotes: the option changes nothing
C26_StripQuotesIgnored ==
    (WordEvaluated /\ q_eval.options.strip_quotes) =>
        q_eval.result =
            evaluate(EvaluatedAst, q_eval.text, q_eval.options.ignore_case, FALSE)

\* A quoted pattern was evaluated with strip_quotes on
C26_QuotedPatternEvaluated ==
    WordEvaluated /\ q_eval.options.strip_quotes /\ Quoted(EvaluatedAst[2])

\* The Word patterns of an AST
RECURSIVE PatternsOf(_)
PatternsOf(node) ==
    IF node[1] = "WORD" THEN { node[2] }
    ELSE IF node[1] = "NOT" THEN PatternsOf(node[2])
    ELSE PatternsOf(node[2]) \cup PatternsOf(node[3])

\* The patterns of the AST that are no regular expression
InvalidPatterns(node) == { p \in PatternsOf(node) : ~ RegexCompiles(p) }

\* The value of an AST in regex mode when a Word that does not compile is
\* taken as false ("skipped")
RECURSIVE ValueSkipping(_, _, _)
ValueSkipping(node, text, ignore_case) ==
    IF node[1] = "WORD"
    THEN /\ node[2] # <<>>
         /\ RegexCompiles(node[2])
         /\ IF ignore_case THEN Contains(LowerStr(text), LowerStr(node[2]))
            ELSE Contains(text, node[2])
    ELSE IF node[1] = "NOT" THEN ~ ValueSkipping(node[2], text, ignore_case)
    ELSE IF node[1] = "AND"
    THEN ValueSkipping(node[2], text, ignore_case)
            /\ ValueSkipping(node[3], text, ignore_case)
    ELSE ValueSkipping(node[2], text, ignore_case)
            \/ ValueSkipping(node[3], text, ignore_case)

\* A left-to-right evaluation that stops as soon as the value is known comes
\* to a Word that does not compile
RECURSIVE ReachesInvalid(_, _, _)
ReachesInvalid(node, text, ignore_case) ==
    IF node[1] = "WORD" THEN node[2] # <<>> /\ ~ RegexCompiles(node[2])
    ELSE IF node[1] = "NOT" THEN ReachesInvalid(node[2], text, ignore_case)
    ELSE \/ ReachesInvalid(node[2], text, ignore_case)
         \/ /\ ValueSkipping(node[2], text, ignore_case) = (node[1] = "AND")
            /\ ReachesInvalid(node[3], text, ignore_case)

\* An evaluation in regex mode was made
RegexEvaluated == q_eval.done /\ q_eval.options.use_regex

EvalOf(node) ==
    evaluate(node, q_eval.text, q_eval.options.ignore_case,
             q_eval.options.use_regex)

\* The value an AST denotes when each Word has the value its match gives and
\* NOT, AND, OR are the connectives of logic
RECURSIVE Denotes(_)
Denotes(node) ==
    IF node[1] = "WORD" THEN EvalOf(node).value
    ELSE IF node[1] = "NOT" THEN ~ Denotes(node[2])
    ELSE IF node[1] = "AND" THEN Denotes(node[2]) /\ Denotes(node[3])
    ELSE Denotes(node[2]) \/ Denotes(node[3])

\* C28: under any options, evaluate(NOT x, t) is the negation of
\* evaluate(x, t), evaluate(x AND y, t) the conjunction and evaluate(x OR y, t)
\* the disjunction of evaluate(x, t) and evaluate(y, t), the second operand
\* being evaluated only when the first leaves the value open; NOT NOT x
\* evaluates as x does; an evaluation that returns gives the value the
\* expression denotes.
C28_BooleanAlgebra ==
    q_eval.done =>
        LET node == EvaluatedAst
            res == q_eval.result IN
        /\ node[1] = "NOT" =>
               LET x == EvalOf(node[2]) IN
               /\ res.raised <=> x.raised
               /\ ~ x.raised => res.value = ~ x.value
        /\ (node[1] = "NOT" /\ node[2][1] = "NOT") => res = EvalOf(node[2][2])
        /\ node[1] = "AND" =>
               LET x == EvalOf(node[2])
                   y == EvalOf(node[3]) IN
               /\ res.raised <=> (x.raised \/ (x.value /\ y.raised))
               /\ ~ res.raised =>
                      res.value = (x.value /\ (y.value /\ ~ y.raised))
        /\ node[1] = "OR" =>
               LET x == EvalOf(node[2])
                   y == EvalOf(node[3]) IN
               /\ res.raised <=> (x.raised \/ (~ x.value /\ y.raised))
               /\ ~ res.raised =>
                      res.value = (x.value \/ (y.value /\ ~ y.raised))
        /\ ~ res.raised => res.value = Denotes(node)

\* NOT NOT x was evaluated to true on a text, without regard to case.
C28_Witness ==
    /\ q_eval.done
    /\ q_eval.options.ignore_case
    /\ EvaluatedAst[1] = "NOT"
    /\ EvaluatedAst[2][1] = "NOT"
    /\ ~ q_eval.result.raised
    /\ q_eval.result.value

\* How many parentheses are open before token i
ParenDepth(tokens, i) ==
    Cardinality({ j \in 1..(i - 1) : tokens[j].type = "LPAREN" })
        - Cardinality({ j \in 1..(i - 1) : tokens[j].type = "RPAREN" })

\* The positions of the operators of a type that are inside no parentheses
TopLevel(tokens, type) ==
    { i \in 1..Len(tokens) : tokens[i].type = type /\ ParenDepth(tokens, i) = 0 }

\* The largest element of a non-empty set of numbers
Last(S) == CHOOSE i \in S : \A j \in S : j <= i

\* The AST the grammar gives a well-formed token sequence, found by
\* splitting: at the last OR outside parentheses; failing that at the last
\* AND outside parentheses; failing that a leading NOT applies to the rest;
\* failing that enclosing parentheses are dropped; what is left is a WORD.
RECURSIVE GrammarAst(_)
GrammarAst(tokens) ==
    LET n == Len(tokens) IN
    IF TopLevel(tokens, "OR") # {}
    THEN LET i == Last(TopLevel(tokens, "OR")) IN
         <<"OR", GrammarAst(SubSeq(tokens, 1, i - 1)),
                 GrammarAst(SubSeq(tokens, i + 1, n))>>
    ELSE IF TopLevel(tokens, "AND") # {}
    THEN LET i == Last(TopLevel(tokens, "AND")) IN
         <<"AND", GrammarAst(SubSeq(tokens, 1, i - 1)),
                  GrammarAst(SubSeq(tokens, i + 1, n))>>
    ELSE IF tokens[1].type = "NOT"
    THEN <<"NOT", GrammarAst(Tail(tokens))>>
    ELSE IF tokens[1].type = "LPAREN"
    THEN GrammarAst(SubSeq(tokens, 2, n - 1))
    ELSE <<"WORD", tokens[1].value>>

\* C29: for every token sequence the parser accepts the AST is the one of
\* the grammar: NOT binds tighter than AND and AND tighter than OR, a chain
\* of one binary operator associates to the left, and parentheses group
\* without leaving a node.
C29_AstFollowsGrammar ==
    (q_ast.done /\ q_ast.r.ok) =>
        q_ast.r.node = GrammarAst(q_tokens.r.tokens)

\* A parenthesised OR was parsed as the left operand of an AND.
C29_Witness ==
    /\ q_ast.done
    /\ q_ast.r.ok
    /\ q_ast.r.node[1] = "AND"
    /\ q_ast.r.node[2][1] = "OR"
    /\ q_ast.r.node[3][1] = "WORD"

\* The kinds and values of a token stream, positions left out
KindsAndValues(tokens) ==
    [i \in 1..Len(tokens) |-> <<tokens[i].type, tokens[i].value>>]

\* value begins with the keyword as a standalone word
BeginsWithKeyword(value, keyword) ==
    /\ Len(value) >= Len(keyword)
    /\ UpperStr(SubSeq(value, 1, Len(keyword))) = keyword
    /\ Len(value) > Len(keyword) => ~ IsWordChar(value[Len(keyword) + 1])

\* A WORD value that can be written without quotes: not empty, no blank and
\* no parenthesis in it, no quote at its start, no keyword at its start
PlainWord(value) ==
    /\ value # <<>>
    /\ \A i \in 1..Len(value) : ~ (IsSpace(value[i]) \/ value[i] \in {"(", ")"})
    /\ ~ IsQuote(value[1])
    /\ \A keyword \in { KwAND, KwOR, KwNOT } : ~ BeginsWithKeyword(value, keyword)

\* C30 as claimed: for every valid query, the token values joined by single
\* blanks tokenize again to the same kinds and values in the same order.
C30_TokenizerRoundTrip ==
    q_retokens.done =>
        /\ q_retokens.r.ok
        /\ KindsAndValues(q_retokens.r.tokens) = KindsAndValues(q_tokens.r.tokens)

\* C30 as amended: the same, for the valid queries all of whose WORD values
\* can be written without quotes.
C30_RoundTripOfPlainWords ==
    (/\ q_retokens.done
     /\ \A i \in 1..Len(q_tokens.r.tokens) :
            q_tokens.r.tokens[i].type = "WORD"
                => PlainWord(q_tokens.r.tokens[i].value)) =>
        /\ q_retokens.r.ok
        /\ KindsAndValues(q_retokens.r.tokens) = KindsAndValues(q_tokens.r.tokens)

\* A query of three tokens or more that is not written as its token values
\* joined by single blanks, all its words plain, was rebuilt and tokenized
\* again.
C30_Witness ==
    /\ q_retokens.done
    /\ q_retokens.r.ok
    /\ JoinWithSpaces([i \in 1..Len(q_tokens.r.tokens) |->
                          q_tokens.r.tokens[i].value]) # q_expression
    /\ Len(q_tokens.r.tokens) >= 3
    /\ \A i \in 1..Len(q_tokens.r.tokens) :
           q_tokens.r.tokens[i].type = "WORD"
               => PlainWord(q_tokens.r.tokens[i].value)

\* C31: a query parses to an AST or raises a tokenization or parse error, and
\* the position the error carries lies within 0..len(Q) of the query as
\* written, also when the error is found at the end of the input.
C31_ErrorPositionWithinQuery ==
    /\ (q_tokens.done /\ ~ q_tokens.r.ok)
            => q_tokens.r.position \in 0..Len(q_expression)
    /\ (q_ast.done /\ ~ q_ast.r.ok)
            => q_ast.r.position \in 0..Len(q_expression)

\* C31, the part that holds: an error raised before the end of the input
\* carries the position of a token of the query as written, and an error at
\* the end carries the length of the expression rebuilt from the tokens.
C31_ErrorPositionOfTokenOrRebuilt ==
    /\ (q_tokens.done /\ ~ q_tokens.r.ok)
            => q_tokens.r.position \in 0..Len(q_expression)
    /\ (q_ast.done /\ ~ q_ast.r.ok)
            => \/ q_ast.r.position \in 0..(Len(q_expression) - 1)
               \/ q_ast.r.position = Len(ReconstructExpression(q_tokens.r.tokens))

\* The keyword is spelled, in any letter case, at the 0-based position
SpelledAt(expression, position, keyword) ==
    /\ position + Len(keyword) <= Len(expression)
    /\ UpperStr(SubSeq(expression, position + 1, position + Len(keyword))) = keyword

\* The characters next to the spelling, where there are any, are no word
\* characters
StandsAlone(expression, position, keyword) ==
    /\ position > 0 => ~ IsWordChar(expression[position])
    /\ position + Len(keyword) < Len(expression)
           => ~ IsWordChar(expression[position + Len(keyword) + 1])

\* The number of characters of the expression a token was read from: a
\* quoted run counts its two quotes
TokenExtent(expression, token) ==
    IF token.type = "WORD" /\ IsQuote(expression[token.position + 1])
    THEN Len(token.value) + 2
    ELSE Len(token.value)

\* The token was read from a quoted run that holds positions from .. to - 1
InsideQuotedRun(expression, token, from, to) ==
    /\ token.type = "WORD"
    /\ IsQuote(expression[token.position + 1])
    /\ token.position < from
    /\ to < token.position + TokenExtent(expression, token)

C33_WriteFailureRaises ==
    (pc = "exit" /\ exit_code = 0 /\ all_matched_records # <<>>)
        => (output_file.exists
               /\ output_file.writes = WriteCalls(all_matched_records))

\* C33, the part that holds: a failed write changes nothing else; the file
\* is either absent or holds every matched record.
C33_FileAbsentOrComplete ==
    output_file.exists => output_file.writes = WriteCalls(all_matched_records)

\* The statistics as the scan left them, and no matched record
AfterScan ==
    [stats |-> [stats EXCEPT !.files_processed = 0, !.records_total = 0,
                             !.records_matched = 0, !.records_skipped = 0,
                             !.total_bytes_processed = 0,
                             !.total_lines_processed = 0],
     all_matched_records |-> <<>>]

\* What the multi-worker path makes of the results of the first n files
RECURSIVE OutcomeMulti(_)
OutcomeMulti(n) ==
    IF n = 0 THEN AfterScan
    ELSE AggregateMulti(OutcomeMulti(n - 1), results[files_to_process[n]])

\* What the single-worker path makes of the results of the first n files
RECURSIVE OutcomeSingle(_)
OutcomeSingle(n) ==
    IF n = 0 THEN AfterScan
    ELSE AggregateSingle(OutcomeSingle(n - 1), results[files_to_process[n]])

\* The outcome of the run taken over the same files and results by the
\* path this run did not take
OutcomeOfOtherPath ==
    IF UseMultiprocessing(worker_count)
    THEN OutcomeSingle(Len(files_to_process))
    ELSE OutcomeMulti(Len(files_to_process))

\* C34: a run with one worker and a run with several workers over the same
\* files give the same multiset of output records and the same counters
\* (files processed and skipped, records total, matched and skipped): at the
\* end of a run its records and counters are those the other path gives.
C34_SingleAndMultiAgree ==
    pc = "finish" =>
        /\ SameBag(all_matched_records, OutcomeOfOtherPath.all_matched_records)
        /\ \A k \in { "files_processed", "files_skipped", "records_total",
                       "records_matched", "records_skipped" } :
               stats[k] = OutcomeOfOtherPath.stats[k]

\* C34, the part that holds: the two paths agree on the records and on every
\* counter but records_skipped.
C34_AgreeButRecordsSkipped ==
    pc = "finish" =>
        /\ SameBag(all_matched_records, OutcomeOfOtherPath.all_matched_records)
        /\ \A k \in { "files_processed", "files_skipped", "records_total",
                       "records_matched" } :
               stats[k] = OutcomeOfOtherPath.stats[k]

\* The orders in which the to-process files can be handled
FileOrders ==
    { order \in [1..Len(files_to_process) -> ToProcess] :
          \A i, j \in 1..Len(files_to_process) : order[i] = order[j] => i = j }

\* The matched records of the first n files of order, one block per file
RECURSIVE Blocks(_, _)
Blocks(order, n) ==
    IF n = 0 THEN <<>>
    ELSE Blocks(order, n - 1) \o results[order[n]].matched_records

\* C35: in the output the matched records of one input file form one
\* contiguous block, whatever the order in which the worker tasks complete:
\* the records written are the blocks of the files, one after the other in
\* some order of the files.
C35_OneBlockPerFile ==
    pc = "finish" =>
        /\ \E order \in FileOrders :
               all_matched_records = Blocks(order, Len(files_to_process))
        /\ output_file.exists => OutputRecords = all_matched_records

\* Two worker tasks were collected in the order opposite to their
\* submission, the later file with two matched records, and the output
\* was written.
C35_Witness ==
    /\ pc = "finish"
    /\ output_file.exists
    /\ UseMultiprocessing(worker_count)
    /\ Len(files_to_process) >= 2
    /\ Len(results[files_to_process[1]].matched_records) >= 1
    /\ Len(results[files_to_process[2]].matched_records) >= 2
    /\ all_matched_records # Blocks([i \in 1..Len(files_to_process) |->
                                        files_to_process[i]],
                                   Len(files_to_process))

\* A non-dry run has returned normally
RunEnded ==
    /\ pc = "exit"
    /\ exit_code = 0
    /\ config # NoConfig
    /\ ~ config.output.dry_run

\* C36: at the end of every non-dry run every scanned file is accounted for
\* exactly once, files_scanned = files_processed + files_skipped, also when
\* worker tasks failed.
C36_EveryScannedFileAccounted ==
    RunEnded => stats.files_scanned = stats.files_processed + stats.files_skipped

\* C36, the part that holds: the files not accounted for are the files
\* whose task failed.
C36_UnaccountedAreFailed ==
    RunEnded =>
        stats.files_scanned
            = stats.files_processed + stats.files_skipped + Cardinality(Failed)

(***************************************************************************)
(* FileWorker.process_file (processing/worker.py): one call, step by step  *)
(***************************************************************************)

\* The reasons process_file counts a skipped file under
WorkerSkipReasons ==
    { "validation-failed", "record-size-exceeded", "error", "unexpected-error" }

\* The except clauses of process_file with the last one, except Exception,
\* left out: "" stands for an exception no clause catches
ExceptClauseNarrow(exception) ==
    IF exception = "RecordSizeExceededError" THEN "record-size-exceeded"
    ELSE IF exception = "FileHandlingError" THEN "error"
    ELSE ""

\* The except clauses of process_file: the reason the clause that catches
\* the exception counts the file under
ExceptClause(exception) ==
    IF exception = "RecordSizeExceededError" THEN "record-size-exceeded"
    ELSE IF exception = "FileHandlingError" THEN "error"
    ELSE "unexpected-error"

\* What handler.read_lines() may give the worker: the lines, or an error
FwReads ==
    { [error |-> "", lines |-> c] : c \in FileContents }
        \cup { [error |-> e, lines |-> <<>>] :
                   e \in { "FileHandlingError", "RuntimeError" } }

\* The searches of the calls: expression, ignore_case, use_regex
FwSearches ==
    { <<ExprK, FALSE, FALSE>>, <<ExprAndNot, TRUE, FALSE>>,
      <<ExprOrBracket, FALSE, TRUE>> }

\* The collector of the worker before the call
FwStatsBefore ==
    { [NewStats EXCEPT !.skip_reasons = [r \in WorkerSkipReasons |-> 0]],
      [NewStats EXCEPT !.skip_reasons =
                           [r \in WorkerSkipReasons |->
                               IF r = "error" THEN 1 ELSE 0],
                       !.files_processed = 1, !.files_skipped = 1] }

\* process_file is entered: its arguments, what the collaborators will
\* give, and its locals
FwInit ==
    /\ args = BaseArgs
    /\ PipelineInit
    /\ AsmIdle
    /\ FltIdle
    /\ QueryIdle
    /\ ScIdle
    /\ BwIdle
    /\ fw_stats \in FwStatsBefore
    /\ fw_written = <<>>
    /\ \E valid \in BOOLEAN, read \in FwReads, search \in FwSearches,
          cap \in { NoLimit, BytesPerKb },
          date_from \in { NoBound, DayOf(Date2) } :
          fw = [pc            |-> "validate",
                valid         |-> valid,
                read          |-> read,
                cap           |-> cap,
                ast           |-> parse(search[1]).ast,
                search        |-> [ignore_case |-> search[2],
                                   use_regex   |-> search[3],
                                   date_from   |-> date_from,
                                   date_to     |-> NoBound,
                                   time_from   |-> NoBound,
                                   time_to     |-> NoBound],
                records       |-> <<>>,
                parser_raises |-> FALSE,
                matches_found |-> 0,
                returned      |-> 0,
                stats_before  |-> fw_stats]

\* An exception leaves the try block: the clause that catches it counts the
\* file as skipped and returns matches_found; an exception no clause
\* catches leaves process_file.  locals are the locals when it is raised.
FwRaise(locals, st, exception) ==
    IF ExceptClause(exception) # ""
    THEN /\ fw_stats' = IncrementFilesSkipped(st, ExceptClause(exception))
         /\ fw' = [locals EXCEPT !.pc = "returned",
                                  !.returned = locals.matches_found]
    ELSE /\ fw_stats' = st
         /\ fw' = [locals EXCEPT !.pc = "raised"]

\* handler.validate(), and the return of 0 for a file that is not valid
FwValidate ==
    /\ fw.pc = "validate"
    /\ IF ~ fw.valid
       THEN /\ fw_stats' = IncrementFilesSkipped(fw_stats, "validation-failed")
            /\ fw' = [fw EXCEPT !.pc = "returned", !.returned = 0]
       ELSE /\ fw' = [fw EXCEPT !.pc = "read"]
            /\ UNCHANGED fw_stats
    /\ UNCHANGED fw_written
    /\ UNCHANGED <<pipelineVars, asmVars, fltVars, queryVars, scVars, bwVars>>

\* handler.read_lines() and record_parser.parse_lines(): the records the
\* assembler will yield, and whether it raises after them
FwRead ==
    /\ fw.pc = "read"
    /\ IF fw.read.error # ""
       THEN FwRaise(fw, fw_stats, fw.read.error)
       ELSE LET parsed == ParseLines(fw.read.lines, fw.cap)
            IN  /\ fw' = [fw EXCEPT !.pc = "loop",
                                     !.records = parsed.records,
                                     !.parser_raises = parsed.raised]
                /\ UNCHANGED fw_stats
    /\ UNCHANGED fw_written
    /\ UNCHANGED <<pipelineVars, asmVars, fltVars, queryVars, scVars, bwVars>>

\* One iteration of the for loop of process_file.  writer.write_result may
\* raise FileHandlingError from its flush.
FwRecord ==
    /\ fw.pc = "loop"
    /\ fw.records # <<>>
    /\ LET record == Head(fw.records)
           rest == [fw EXCEPT !.records = Tail(@)]
           counted ==
               [fw_stats EXCEPT
                   !.records_total = @ + 1,
                   !.total_bytes_processed = @ + record.size_bytes,
                   !.total_lines_processed =
                       @ + (record.end_line - record.start_line + 1)]
       IN  IF ~ RecordFilterMatches(fw.search, record)
           THEN /\ fw_stats' = [counted EXCEPT !.records_skipped = @ + 1]
                /\ fw' = rest
                /\ UNCHANGED fw_written
           ELSE LET e == evaluate(fw.ast, record.content, fw.search.ignore_case,
                                  fw.search.use_regex)
                IN  IF e.raised
                    THEN /\ FwRaise(rest, counted, "EvaluationError")
                         /\ UNCHANGED fw_written
                    ELSE IF ~ e.value
                    THEN /\ fw_stats' = counted
                         /\ fw' = rest
                         /\ UNCHANGED fw_written
                    ELSE LET found == [rest EXCEPT !.matches_found = @ + 1]
                             matched == [counted EXCEPT !.records_matched = @ + 1]
                         IN  /\ fw_written' = Append(fw_written, record.content)
                             /\ \E flushed \in BOOLEAN :
                                   IF flushed
                                   THEN fw_stats' = matched /\ fw' = found
                                   ELSE FwRaise(found, matched, "FileHandlingError")
    /\ UNCHANGED <<pipelineVars, asmVars, fltVars, queryVars, scVars, bwVars>>

\* The for loop ends: the assembler raises RecordSizeExceededError, or it
\* is exhausted and process_file counts the file as processed and returns
FwLoopEnd ==
    /\ fw.pc = "loop"
    /\ fw.records = <<>>
    /\ IF fw.parser_raises
       THEN FwRaise(fw, fw_stats, "RecordSizeExceededError")
       ELSE /\ fw_stats' = IncrementFilesProcessed(fw_stats)
            /\ fw' = [fw EXCEPT !.pc = "returned",
                                 !.returned = fw.matches_found]
    /\ UNCHANGED fw_written
    /\ UNCHANGED <<pipelineVars, asmVars, fltVars, queryVars, scVars, bwVars>>

FwNext == FwValidate \/ FwRead \/ FwRecord \/ FwLoopEnd

SpecFileWorker == FwInit /\ [][FwNext]_vars

NumThreads == 2
Threads == 1..NumThreads

\* How many collector calls the threads make together
MaxCalls == 3

\* The reasons the threads count skipped files under
ScReasons == { "size-limit", "error" }

\* The calls a thread may make: the method and its reason argument
ScCalls ==
    { [method |-> "increment_files_processed", reason |-> ""],
      [method |-> "get_snapshot", reason |-> ""] }
        \cup { [method |-> "increment_files_skipped", reason |-> r] :
                   r \in ScReasons }

\* A thread that is in no call
ScThreadIdle ==
    [pc |-> "idle", call |-> [method |-> "", reason |-> ""], tmp |-> 0,
     snap |-> [files_skipped |-> 0, skip_reasons |-> [r \in ScReasons |-> 0]]]

\* A lock that excludes nobody
AcquirableAlways(lock) == TRUE

\* threading.Lock: "with self._lock" is entered when no thread holds it
Acquirable(lock) == lock = 0

\* StatisticsCollector(): fresh statistics, and threads about to call it
ScInit ==
    /\ args = BaseArgs
    /\ PipelineInit
    /\ AsmIdle
    /\ FltIdle
    /\ QueryIdle
    /\ FwIdle
    /\ BwIdle
    /\ sc_stats = [NewStats EXCEPT !.skip_reasons = [r \in ScReasons |-> 0]]
    /\ sc_lock = 0
    /\ sc_threads = [t \in Threads |-> ScThreadIdle]
    /\ sc_returned = [c \in ScCalls |-> 0]
    /\ sc_snapshot = NotYet

\* How many calls have been entered
RECURSIVE SumReturned(_)
SumReturned(calls) ==
    IF calls = {} THEN 0
    ELSE LET c == CHOOSE x \in calls : TRUE
         IN  sc_returned[c] + SumReturned(calls \ {c})

ScEntered ==
    SumReturned(ScCalls)
        + Cardinality({ t \in Threads : sc_threads[t].pc # "idle" })

\* Thread t calls a method and enters its "with self._lock"
ScAcquire(t) ==
    /\ sc_threads[t].pc = "idle"
    /\ ScEntered < MaxCalls
    /\ Acquirable(sc_lock)
    /\ sc_lock' = t
    /\ \E call \in ScCalls :
          sc_threads' =
              [sc_threads EXCEPT ![t] =
                  [ScThreadIdle EXCEPT
                      !.call = call,
                      !.pc = IF call.method = "get_snapshot"
                             THEN "snap_files" ELSE "load"]]
    /\ UNCHANGED <<sc_stats, sc_returned, sc_snapshot>>
    /\ UNCHANGED <<pipelineVars, asmVars, fltVars, queryVars, fwVars, bwVars>>

\* The field the call adds to first
ScField(call) ==
    IF call.method = "increment_files_processed"
    THEN "files_processed" ELSE "files_skipped"

\* The load of "self.stats.<field> += count"
ScLoad(t) ==
    /\ sc_threads[t].pc = "load"
    /\ sc_threads' = [sc_threads EXCEPT
                          ![t].tmp = sc_stats[ScField(sc_threads[t].call)],
                          ![t].pc = "store"]
    /\ UNCHANGED <<sc_stats, sc_lock, sc_returned, sc_snapshot>>
    /\ UNCHANGED <<pipelineVars, asmVars, fltVars, queryVars, fwVars, bwVars>>

\* The store of "self.stats.<field> += count"
ScStore(t) ==
    /\ sc_threads[t].pc = "store"
    /\ sc_stats' = [sc_stats EXCEPT
                        ![ScField(sc_threads[t].call)] = sc_threads[t].tmp + 1]
    /\ sc_threads' = [sc_threads EXCEPT
                          ![t].pc =
                              IF sc_threads[t].call.method = "increment_files_skipped"
                              THEN "load_reason" ELSE "release"]
    /\ UNCHANGED <<sc_lock, sc_returned, sc_snapshot>>
    /\ UNCHANGED <<pipelineVars, asmVars, fltVars, queryVars, fwVars, bwVars>>

\* increment_files_skipped: self.stats.skip_reasons.get(reason, 0)
ScLoadReason(t) ==
    /\ sc_threads[t].pc = "load_reason"
    /\ sc_threads' = [sc_threads EXCEPT
                          ![t].tmp = sc_stats.skip_reasons[sc_threads[t].call.reason],
                          ![t].pc = "store_reason"]
    /\ UNCHANGED <<sc_stats, sc_lock, sc_returned, sc_snapshot>>
    /\ UNCHANGED <<pipelineVars, asmVars, fltVars, queryVars, fwVars, bwVars>>

\* increment_files_skipped: self.stats.skip_reasons[reason] = ... + count
ScStoreReason(t) ==
    /\ sc_threads[t].pc = "store_reason"
    /\ sc_stats' = [sc_stats EXCEPT
                        !.skip_reasons[sc_threads[t].call.reason] =
                            sc_threads[t].tmp + 1]
    /\ sc_threads' = [sc_threads EXCEPT ![t].pc = "release"]
    /\ UNCHANGED <<sc_lock, sc_returned, sc_snapshot>>
    /\ UNCHANGED <<pipelineVars, asmVars, fltVars, queryVars, fwVars, bwVars>>

\* get_snapshot: the counters are read ...
ScSnapFiles(t) ==
    /\ sc_threads[t].pc = "snap_files"
    /\ sc_threads' = [sc_threads EXCEPT
                          ![t].snap.files_skipped = sc_stats.files_skipped,
                          ![t].pc = "snap_reasons"]
    /\ UNCHANGED <<sc_stats, sc_lock, sc_returned, sc_snapshot>>
    /\ UNCHANGED <<pipelineVars, asmVars, fltVars, queryVars, fwVars, bwVars>>

\* ... and then skip_reasons.copy() is made
ScSnapReasons(t) ==
    /\ sc_threads[t].pc = "snap_reasons"
    /\ sc_threads' = [sc_threads EXCEPT
                          ![t].snap.skip_reasons = sc_stats.skip_reasons,
                          ![t].pc = "release"]
    /\ UNCHANGED <<sc_stats, sc_lock, sc_returned, sc_snapshot>>
    /\ UNCHANGED <<pipelineVars, asmVars, fltVars, queryVars, fwVars, bwVars>>

\* The with block is left and the method returns
ScRelease(t) ==
    /\ sc_threads[t].pc = "release"
    /\ sc_lock' = 0
    /\ sc_returned' = [sc_returned EXCEPT ![sc_threads[t].call] = @ + 1]
    /\ sc_snapshot' = IF sc_threads[t].call.method = "get_snapshot"
                      THEN [done |-> TRUE, r |-> sc_threads[t].snap]
                      ELSE sc_snapshot
    /\ sc_threads' = [sc_threads EXCEPT ![t] = ScThreadIdle]
    /\ UNCHANGED sc_stats
    /\ UNCHANGED <<pipelineVars, asmVars, fltVars, queryVars, fwVars, bwVars>>

ScNext ==
    \E t \in Threads :
        \/ ScAcquire(t)
        \/ ScLoad(t)
        \/ ScStore(t)
        \/ ScLoadReason(t)
        \/ ScStoreReason(t)
        \/ ScSnapFiles(t)
        \/ ScSnapReasons(t)
        \/ ScRelease(t)

SpecCollector == ScInit /\ [][ScNext]_vars

\* The sum of the per-reason counts
RECURSIVE SumOfReasons(_, _)
SumOfReasons(skip_reasons, reasons) ==
    IF reasons = {} THEN 0
    ELSE LET r == CHOOSE x \in reasons : TRUE
         IN  skip_reasons[r] + SumOfReasons(skip_reasons, reasons \ {r})

\* How many increment_files_skipped calls have returned
SkipCallsReturned ==
    SumReturned({ c \in ScCalls : c.method = "increment_files_skipped" })

\* C38: after any interleaving of collector calls by the threads no
\* increment is lost (when no call is under way each counter is the number
\* of calls that incremented it), and in every snapshot files_skipped is
\* the sum of the per-reason counts.
C38_NoLostIncrement ==
    /\ (\A t \in Threads : sc_threads[t].pc = "idle") =>
           /\ sc_stats.files_processed
                  = sc_returned[[method |-> "increment_files_processed",
                                 reason |-> ""]]
           /\ sc_stats.files_skipped = SkipCallsReturned
           /\ \A r \in ScReasons :
                  sc_stats.skip_reasons[r]
                      = sc_returned[[method |-> "increment_files_skipped",
                                     reason |-> r]]
    /\ sc_snapshot.done =>
           sc_snapshot.r.files_skipped
               = SumOfReasons(sc_snapshot.r.skip_reasons, ScReasons)

\* The threads have counted two skips under different reasons, a snapshot
\* was taken after the first of them, and every call has returned.
C38_Witness ==
    /\ sc_snapshot.done
    /\ sc_snapshot.r.files_skipped >= 1
    /\ sc_stats.files_skipped = 2
    /\ \A r \in ScReasons : sc_stats.skip_reasons[r] = 1
    /\ \A t \in Threads : sc_threads[t].pc = "idle"

(***************************************************************************)
(* BufferedLogWriter (infrastructure/file_writer.py) called by several     *)
(* threads.  An item is one string appended to the buffer; it is named by  *)
(* the thread, the number of the thread's call, and its part.              *)
(***************************************************************************)

\* How many write calls the threads make together
MaxWrites == 3

\* The buffer_size arguments a writer is made with
BufferSizeArgs == { 0, 3, 4 }

\* A thread that has made no call
BwThreadIdle == [pc |-> "idle", calls |-> <<>>]

Item(t, n, part) == [thread |-> t, call |-> n, part |-> part]

\* _flush_unlocked with the buffer.clear() left out
FlushUnlockedKeeping(buffer, file, handle) ==
    IF buffer = <<>>
    THEN [buffer |-> buffer, file |-> file, raised |-> FALSE]
    ELSE IF handle # "open"
    THEN [buffer |-> buffer, file |-> file, raised |-> TRUE]
    ELSE [buffer |-> buffer, file |-> file \o buffer, raised |-> FALSE]

\* _flush_unlocked: nothing for an empty buffer, FileHandlingError without a
\* file handle, else the joined buffer is written and the buffer cleared
FlushUnlocked(buffer, file, handle) ==
    IF buffer = <<>>
    THEN [buffer |-> buffer, file |-> file, raised |-> FALSE]
    ELSE IF handle # "open"
    THEN [buffer |-> buffer, file |-> file, raised |-> TRUE]
    ELSE [buffer |-> <<>>, file |-> file \o buffer, raised |-> FALSE]

\* BufferedLogWriter(output_path, buffer_size, include_path)
BwInit ==
    /\ args = BaseArgs
    /\ PipelineInit
    /\ AsmIdle
    /\ FltIdle
    /\ QueryIdle
    /\ FwIdle
    /\ ScIdle
    /\ \E buffer_size \in BufferSizeArgs, include_path \in BOOLEAN :
          bw_config = [buffer_size  |-> IF buffer_size > 1 THEN buffer_size ELSE 1,
                       include_path |-> include_path]
    /\ bw_buffer = <<>>
    /\ bw_file = <<>>
    /\ bw_handle = "none"
    /\ bw_lock = 0
    /\ bw_threads = [t \in Threads |-> BwThreadIdle]

\* open()
BwOpen ==
    /\ bw_handle = "none"
    /\ bw_handle' = "open"
    /\ UNCHANGED <<bw_config, bw_buffer, bw_file, bw_lock, bw_threads>>
    /\ UNCHANGED <<pipelineVars, asmVars, fltVars, queryVars, fwVars, scVars>>

\* How many write calls have been entered
RECURSIVE BwEntered(_)
BwEntered(threads) ==
    IF threads = {} THEN 0
    ELSE LET t == CHOOSE x \in threads : TRUE
         IN  Len(bw_threads[t].calls) + BwEntered(threads \ {t})

\* Thread t calls write_result on the open writer, with a source_path or
\* without, and enters its "with self._lock"
BwAcquire(t) ==
    /\ bw_handle = "open"
    /\ bw_threads[t].pc = "idle"
    /\ BwEntered(Threads) < MaxWrites
    /\ Acquirable(bw_lock)
    /\ bw_lock' = t
    /\ \E source_path \in BOOLEAN :
          bw_threads' =
              [bw_threads EXCEPT
                  ![t].calls = Append(@, source_path),
                  ![t].pc = IF bw_config.include_path /\ source_path
                            THEN "header" ELSE "content"]
    /\ UNCHANGED <<bw_config, bw_buffer, bw_file, bw_handle>>
    /\ UNCHANGED <<pipelineVars, asmVars, fltVars, queryVars, fwVars, scVars>>

\* write_result: the source path header is appended
BwAppendHeader(t) ==
    /\ bw_threads[t].pc = "header"
    /\ bw_buffer' = Append(bw_buffer, Item(t, Len(bw_threads[t].calls), "header"))
    /\ bw_threads' = [bw_threads EXCEPT ![t].pc = "content"]
    /\ UNCHANGED <<bw_config, bw_file, bw_handle, bw_lock>>
    /\ UNCHANGED <<pipelineVars, asmVars, fltVars, queryVars, fwVars, scVars>>

\* write_result: the content is appended
BwAppendContent(t) ==
    /\ bw_threads[t].pc = "content"
    /\ bw_buffer' = Append(bw_buffer, Item(t, Len(bw_threads[t].calls), "content"))
    /\ bw_threads' = [bw_threads EXCEPT ![t].pc = "newline"]
    /\ UNCHANGED <<bw_config, bw_file, bw_handle, bw_lock>>
    /\ UNCHANGED <<pipelineVars, asmVars, fltVars, queryVars, fwVars, scVars>>

\* write_result: the newline is appended
BwAppendNewline(t) ==
    /\ bw_threads[t].pc = "newline"
    /\ bw_buffer' = Append(bw_buffer, Item(t, Len(bw_threads[t].calls), "newline"))
    /\ bw_threads' = [bw_threads EXCEPT ![t].pc = "check"]
    /\ UNCHANGED <<bw_config, bw_file, bw_handle, bw_lock>>
    /\ UNCHANGED <<pipelineVars, asmVars, fltVars, queryVars, fwVars, scVars>>

\* write_result: the auto-flush of a full buffer
BwAutoFlush(t) ==
    /\ bw_threads[t].pc = "check"
    /\ IF Len(bw_buffer) >= bw_config.buffer_size
       THEN LET flushed == FlushUnlocked(bw_buffer, bw_file, bw_handle)
            IN  /\ bw_buffer' = flushed.buffer
                /\ bw_file' = flushed.file
       ELSE UNCHANGED <<bw_buffer, bw_file>>
    /\ bw_threads' = [bw_threads EXCEPT ![t].pc = "release"]
    /\ UNCHANGED <<bw_config, bw_handle, bw_lock>>
    /\ UNCHANGED <<pipelineVars, asmVars, fltVars, queryVars, fwVars, scVars>>

\* write_result leaves its with block and returns
BwRelease(t) ==
    /\ bw_threads[t].pc = "release"
    /\ bw_lock' = 0
    /\ bw_threads' = [bw_threads EXCEPT ![t].pc = "idle"]
    /\ UNCHANGED <<bw_config, bw_buffer, bw_file, bw_handle>>
    /\ UNCHANGED <<pipelineVars, asmVars, fltVars, queryVars, fwVars, scVars>>

\* close(): under the lock the buffer is flushed and the file closed.  The
\* threads make no call on a closed writer.
BwClose ==
    /\ bw_handle = "open"
    /\ Acquirable(bw_lock)
    /\ LET flushed == FlushUnlocked(bw_buffer, bw_file, bw_handle)
       IN  /\ bw_buffer' = flushed.buffer
           /\ bw_file' = flushed.file
           /\ bw_handle' = IF flushed.raised THEN bw_handle ELSE "closed"
    /\ UNCHANGED <<bw_config, bw_lock, bw_threads>>
    /\ UNCHANGED <<pipelineVars, asmVars, fltVars, queryVars, fwVars, scVars>>

BwNext ==
    \/ BwOpen
    \/ BwClose
    \/ \E t \in Threads :
           \/ BwAcquire(t)
           \/ BwAppendHeader(t)
           \/ BwAppendContent(t)
           \/ BwAppendNewline(t)
           \/ BwAutoFlush(t)
           \/ BwRelease(t)

SpecWriter == BwInit /\ [][BwNext]_vars

\* The items call n of thread t passes to the writer, in order
Block(t, n) ==
    (IF bw_config.include_path /\ bw_threads[t].calls[n]
     THEN <<Item(t, n, "header")>> ELSE <<>>)
        \o <<Item(t, n, "content"), Item(t, n, "newline")>>

\* The write calls made
WriteCallsMade ==
    { c \in Threads \X (1..MaxWrites) : c[2] <= Len(bw_threads[c[1]].calls) }

\* The position of an item in the file, 0 when it is not there
PositionInFile(item) ==
    IF \E i \in 1..Len(bw_file) : bw_file[i] = item
    THEN CHOOSE i \in 1..Len(bw_file) : bw_file[i] = item
    ELSE 0

\* C39: after close() the file holds every item passed to a write call
\* exactly once, the items of one call next to each other and in order,
\* the calls of one thread in their order; and when a write call returns
\* the buffer holds fewer than buffer_size items.
C39_WriterKeepsEveryItem ==
    /\ bw_handle = "closed" =>
           /\ \A c \in WriteCallsMade :
                  LET block == Block(c[1], c[2])
                      first == PositionInFile(block[1])
                  IN  /\ first > 0
                      /\ first + Len(block) - 1 <= Len(bw_file)
                      /\ SubSeq(bw_file, first, first + Len(block) - 1) = block
                      /\ \A i \in 1..Len(block) : CountIn(bw_file, block[i]) = 1
           /\ \A i \in 1..Len(bw_file) :
                  \E c \in WriteCallsMade :
                      \E j \in 1..Len(Block(c[1], c[2])) :
                          bw_file[i] = Block(c[1], c[2])[j]
           /\ \A c, d \in WriteCallsMade :
                  (c[1] = d[1] /\ c[2] < d[2]) =>
                      PositionInFile(Item(c[1], c[2], "content"))
                          < PositionInFile(Item(d[1], d[2], "content"))
    /\ \A t \in Threads :
           bw_threads[t].pc = "release" => Len(bw_buffer) < bw_config.buffer_size

\* A writer was closed after a thread wrote twice with a source path and
\* another thread wrote in between, part of it flushed before the close.
C39_Witness ==
    /\ bw_handle = "closed"
    /\ bw_config.include_path
    /\ bw_config.buffer_size = 4
    /\ \E t, u \in Threads :
          /\ t # u
          /\ Len(bw_threads[t].calls) = 2
          /\ Len(bw_threads[u].calls) = 1
          /\ bw_threads[t].calls[1]
          /\ PositionInFile(Item(t, 1, "content"))
                 < PositionInFile(Item(u, 1, "content"))
          /\ PositionInFile(Item(u, 1, "content"))
                 < PositionInFile(Item(t, 2, "content"))

=============================================================================
